---- MODULE Spec2Model ----
(***************************************************************************)
(* gonc: the envelope codecs (randomized AES-CTR + HMAC-SHA256 and         *)
(* deterministic AES-SIV chunk framing) and the per-file processor with    *)
(* its atomic temp-file replacement.                                       *)
(*                                                                         *)
(* Bytes are records.  A literal byte is Lit(v), v in 0..255.  The output  *)
(* of a keyed pseudo-random function (HMAC-SHA256, the AES-SIV synthetic   *)
(* IV) is modelled ideally: byte i of PRF_k(d) is the term Prf(k, d, i),   *)
(* equal to another byte only if key, input and index agree.               *)
(***************************************************************************)
EXTENDS Integers, Sequences, FiniteSets, TLC

----------------------------------------------------------------------------
\* Bounds of the model.  The sizes stand for the program's sizes, scaled down:
\* ChunkSize for chunkSize (1 MiB), TagSize for envelopeTagSize (32),
\* IVSize for aes.BlockSize (16), SivSize for the AES-SIV overhead (16),
\* MaxRead for the read buffers (4096 and 32768 bytes).
MaxLen == 4
ChunkSize == 2
TagSize == 2
IVSize == 1
SivSize == 1
MaxRead == 3
MaxFiles == 2
MaxOutputSize == 2
MaxPath == 3

\* Program constants.
AesSivKeySize == 64
AesKeySize == 32
envelopeVersion == 1
envelopeFlagExec == 1
modeDeterministic == 1
modeRandomized == 2
lengthPrefixSize == 4
ownerReadWrite == 384
executableBits == 73

----------------------------------------------------------------------------
\* Bytes

Lit(v) == [v |-> v, i |-> -1, k |-> -1, d |-> <<>>]

Prf(k, d, i) == [v |-> 0, i |-> i, k |-> k, d |-> d]

Lits(vs) == [j \in 1..Len(vs) |-> Lit(vs[j])]

RECURSIVE XorN(_, _, _)
XorN(a, b, n) ==
    IF n = 0 THEN 0
    ELSE (((a % 2) + (b % 2)) % 2) + 2 * XorN(a \div 2, b \div 2, n - 1)

Xor(a, b) == XorN(a, b, 8)

RECURSIVE Weight(_)
Weight(s) ==
    IF s = <<>> THEN 0
    ELSE LET b == s[1]
         IN (b.v + 3 * (b.i + 1) + 5 * (b.k + 1) + 7 * Len(s) + Weight(b.d)
             + Weight(Tail(s))) % 256

\* The numeric value of a byte: its own for a literal, a fixed pseudo-random
\* one for a PRF output byte.
ByteVal(b) == IF b.i = -1 THEN b.v ELSE (Xor(b.v, (Weight(<<b>>) * 37 + 11) % 256))

Drop(s, n) == SubSeq(s, n + 1, Len(s))

Take(s, n) == SubSeq(s, 1, n)

Min(a, b) == IF a < b THEN a ELSE b

----------------------------------------------------------------------------
\* Keys.  A key is its length in bytes and an identity.

Keys ==
    { [len |-> AesKeySize, id |-> 0], [len |-> AesKeySize, id |-> 1],
      [len |-> AesSivKeySize, id |-> 2], [len |-> AesSivKeySize, id |-> 3] }

\* deriveRandomizedKeys: HKDF-SHA256 splits the key into an encryption key and
\* a MAC key; the derived keys are named by distinct numbers.
deriveRandomizedKeys(key) == [enc |-> 3 * key.id, mac |-> 3 * key.id + 1]

\* newDeterministicAEADKeyHandle / daead.New: the AES-SIV primitive of a key.
newDeterministicAEAD(key) == 3 * key.id + 2

NoDaead == -1

----------------------------------------------------------------------------
\* Cryptographic primitives

\* cipher.NewCTR(block, iv): keystream byte at position pos.
KeystreamByte(k, iv, pos) == (Weight(iv) + 29 * (k + 1) + 53 * (pos + 1)) % 256

XorByte(b, ks) == [b EXCEPT !.v = Xor(b.v, ks)]

\* stream.XORKeyStream(dst, src) with the stream at position pos.
XORKeyStream(k, iv, pos, chunk) ==
    [j \in 1..Len(chunk) |-> XorByte(chunk[j], KeystreamByte(k, iv, pos + j - 1))]

\* mac.Sum(nil) of an HMAC keyed with macKey that absorbed data.
hmacSum(macKey, data) == [j \in 1..TagSize |-> Prf(macKey, data, j - 1)]

SepByte == [v |-> 0, i |-> -2, k |-> -1, d |-> <<>>]

\* AES-SIV: the synthetic IV is a PRF of (associated data, plaintext), the
\* body is the plaintext under a CTR keystream started from that IV.
SyntheticIV(k, pt, ad) == [j \in 1..SivSize |-> Prf(k, ad \o <<SepByte>> \o pt, j - 1)]

EncryptDeterministically(k, pt, ad) ==
    LET siv == SyntheticIV(k, pt, ad)
    IN siv \o XORKeyStream(k, siv, 0, pt)

DecryptDeterministically(k, ct, ad) ==
    IF Len(ct) < SivSize THEN [ok |-> FALSE, pt |-> <<>>]
    ELSE LET siv == Take(ct, SivSize)
             pt == XORKeyStream(k, siv, 0, Drop(ct, SivSize))
         IN IF SyntheticIV(k, pt, ad) = siv
            THEN [ok |-> TRUE, pt |-> pt]
            ELSE [ok |-> FALSE, pt |-> <<>>]

----------------------------------------------------------------------------
\* Envelope header

envelopeMagic == Lits(<<71, 79, 78, 67>>)

envelopeHeaderSize == Len(envelopeMagic) + 3

newEnvelopeHeader(mode, executable) ==
    envelopeMagic \o
    << Lit(envelopeVersion),
       Lit(IF executable THEN envelopeFlagExec ELSE 0),
       Lit(mode) >>

parseEnvelopeHeader(header) ==
    IF Len(header) # envelopeHeaderSize
    THEN [mode |-> 0, exec |-> FALSE, err |-> "envelope header too short"]
    ELSE IF Take(header, Len(envelopeMagic)) # envelopeMagic
    THEN [mode |-> 0, exec |-> FALSE, err |-> "invalid envelope magic"]
    ELSE IF ByteVal(header[Len(envelopeMagic) + 1]) # envelopeVersion
    THEN [mode |-> 0, exec |-> FALSE, err |-> "unsupported envelope version"]
    ELSE LET flags == ByteVal(header[Len(envelopeMagic) + 2])
             mode == ByteVal(header[Len(envelopeMagic) + 3])
         IN IF mode \notin {modeDeterministic, modeRandomized}
            THEN [mode |-> 0, exec |-> FALSE, err |-> "unsupported envelope mode"]
            ELSE [mode |-> mode, exec |-> ((flags \div envelopeFlagExec) % 2) # 0, err |-> ""]

----------------------------------------------------------------------------
\* A codec run: the reader r with its position, the bytes written to the
\* writer w, and the locals of the codec function that is running.

NewJob(op, r, key) ==
    [ op |-> op, r |-> r, rpos |-> 0, w |-> <<>>, key |-> key,
      header |-> <<>>, iv |-> <<>>, mac |-> <<>>, ctr |-> 0,
      tagBuffer |-> <<>>, buffer |-> <<>>, ad |-> <<>>, daead |-> NoDaead,
      exec |-> FALSE, done |-> FALSE, err |-> "", wfail |-> FALSE ]

IdleJob == NewJob("none", <<>>, [len |-> 0, id |-> 0])

Fail(j, e) == [j EXCEPT !.done = TRUE, !.err = e]

Remaining(j) == Len(j.r) - j.rpos

\* The results a Read of the io.Reader may give with `left` bytes left:
\* n > 0 bytes, with io.EOF only together with or after the last byte.
Reads(left) ==
    { rd \in [n : 0..Min(left, MaxRead), eof : BOOLEAN] :
        /\ rd.eof => rd.n = left
        /\ rd.n = 0 => rd.eof }

\* io.ReadFull(reader, buf) for len(buf) = n.
ReadFull(j, n) ==
    IF Remaining(j) >= n
    THEN [ok |-> TRUE, buf |-> SubSeq(j.r, j.rpos + 1, j.rpos + n),
          j |-> [j EXCEPT !.rpos = @ + n]]
    ELSE [ok |-> FALSE, buf |-> <<>>, j |-> [j EXCEPT !.rpos = Len(j.r)]]

----------------------------------------------------------------------------
\* Randomized codec (AES-CTR, HMAC-SHA256 over header || IV || ciphertext)

\* encryptRandomized up to its read loop.
encryptRandomizedBegin(j, header, iv) ==
    IF j.key.len # AesKeySize
    THEN Fail(j, "encrypt: randomized mode requires 32-byte key")
    ELSE [j EXCEPT !.header = header, !.iv = iv, !.w = @ \o iv,
                   !.mac = header \o iv, !.ctr = 0]

\* encryptRandomized after the loop: the tag is written last.
encryptRandomizedEnd(j) ==
    [j EXCEPT !.w = @ \o hmacSum(deriveRandomizedKeys(j.key).mac, j.mac),
              !.done = TRUE]

\* One iteration of encryptRandomized's loop, the Read giving rd.
encryptRandomizedRead(j, rd) ==
    LET buf == SubSeq(j.r, j.rpos + 1, j.rpos + rd.n)
        encrypted == XORKeyStream(deriveRandomizedKeys(j.key).enc, j.iv, j.ctr, buf)
        j1 == [j EXCEPT !.rpos = @ + rd.n, !.ctr = @ + rd.n,
                        !.mac = @ \o encrypted, !.w = @ \o encrypted]
    IN IF rd.eof THEN encryptRandomizedEnd(j1) ELSE j1

\* decryptRandomized up to its read loop.
decryptRandomizedBegin(j, header) ==
    IF j.key.len # AesKeySize
    THEN Fail(j, "decrypt: randomized mode requires 32-byte key")
    ELSE LET rf == ReadFull(j, IVSize)
         IN IF ~rf.ok THEN Fail(rf.j, "reading IV")
            ELSE [rf.j EXCEPT !.header = header, !.iv = rf.buf,
                              !.mac = header \o rf.buf, !.ctr = 0,
                              !.tagBuffer = <<>>]

\* decryptRandomized after the loop with the tags not compared.
decryptRandomizedEndNoCompare(j) ==
    IF Len(j.tagBuffer) # TagSize
    THEN Fail(j, "authentication tag missing")
    ELSE [j EXCEPT !.done = TRUE]

\* decryptRandomized after the loop: the held-back bytes are the tag.
decryptRandomizedEnd(j) ==
    IF Len(j.tagBuffer) # TagSize
    THEN Fail(j, "authentication tag missing")
    ELSE IF hmacSum(deriveRandomizedKeys(j.key).mac, j.mac) # j.tagBuffer
    THEN Fail(j, "authentication failed")
    ELSE [j EXCEPT !.done = TRUE]

\* decryptRandomizedChunk with the held-back bytes forgotten: only the bytes
\* of this read are split into ciphertext and tag candidate.
decryptRandomizedChunkForgetsHeld(j, buf) ==
    IF Len(buf) <= TagSize
    THEN [j EXCEPT !.tagBuffer = buf]
    ELSE LET processLen == Len(buf) - TagSize
             chunk == Take(buf, processLen)
             plain == XORKeyStream(deriveRandomizedKeys(j.key).enc, j.iv,
                                   j.ctr, chunk)
         IN [j EXCEPT !.tagBuffer = Drop(buf, processLen),
                      !.mac = @ \o chunk,
                      !.ctr = @ + processLen,
                      !.w = @ \o plain]

\* decryptRandomizedChunk holding back the bytes of the last read only: what
\* was held before is dropped instead of being absorbed and decrypted.
decryptRandomizedChunkDropsHeld(j, buf) ==
    LET combined == j.tagBuffer \o buf
    IN IF Len(combined) <= TagSize
       THEN [j EXCEPT !.tagBuffer = combined]
       ELSE LET processLen == Len(combined) - TagSize
                chunk == Drop(Take(combined, processLen),
                              Min(processLen, Len(j.tagBuffer)))
                plain == XORKeyStream(deriveRandomizedKeys(j.key).enc, j.iv,
                                      j.ctr, chunk)
            IN [j EXCEPT !.tagBuffer = Drop(combined, processLen),
                         !.mac = @ \o chunk,
                         !.ctr = @ + Len(chunk),
                         !.w = @ \o plain]

\* The body of `if n > 0` in decryptRandomized's loop.
decryptRandomizedChunk(j, buf) ==
    LET combined == j.tagBuffer \o buf
    IN IF Len(combined) <= TagSize
       THEN [j EXCEPT !.tagBuffer = combined]
       ELSE LET processLen == Len(combined) - TagSize
                chunk == Take(combined, processLen)
                plain == XORKeyStream(deriveRandomizedKeys(j.key).enc, j.iv,
                                      j.ctr, chunk)
            IN [j EXCEPT !.tagBuffer = Drop(combined, processLen),
                         !.mac = @ \o chunk,
                         !.ctr = @ + processLen,
                         !.w = @ \o plain]

\* One iteration of decryptRandomized's loop, the Read giving rd.
decryptRandomizedRead(j, rd) ==
    LET buf == SubSeq(j.r, j.rpos + 1, j.rpos + rd.n)
        j0 == [j EXCEPT !.rpos = @ + rd.n]
        j1 == IF rd.n > 0 THEN decryptRandomizedChunk(j0, buf) ELSE j0
    IN IF rd.eof THEN decryptRandomizedEnd(j1) ELSE j1

----------------------------------------------------------------------------
\* Deterministic codec (AES-SIV over length-prefixed chunks)

\* binary.Write(w, binary.BigEndian, uint32(n))
PutUint32(n) ==
    << Lit((n \div 16777216) % 256), Lit((n \div 65536) % 256),
       Lit((n \div 256) % 256), Lit(n % 256) >>

\* binary.Read(r, binary.BigEndian, &chunkSize).  A length of 2^30 or more
\* exceeds every stream of the model and is read as 2^30.
Uint32(b) ==
    IF ByteVal(b[1]) >= 64 THEN 1073741824
    ELSE ((ByteVal(b[1]) * 256 + ByteVal(b[2])) * 256 + ByteVal(b[3])) * 256
         + ByteVal(b[4])

\* flushChunk encrypting all that is buffered instead of the first size bytes.
flushChunkWholeBuffer(j, size) ==
    IF size > ChunkSize
    THEN Fail(j, "chunk size exceeds maximum allowed size")
    ELSE IF j.wfail THEN Fail(j, "writing chunk size")
    ELSE LET encrypted == EncryptDeterministically(j.daead, j.buffer, j.ad)
         IN [j EXCEPT !.w = @ \o PutUint32(Len(encrypted)) \o encrypted,
                      !.buffer = <<>>]

\* streamingWriter.flushChunk.  j.wfail: the underlying writer accepts no
\* byte (binary.Write returns an error).
flushChunk(j, size) ==
    IF size > ChunkSize
    THEN Fail(j, "chunk size exceeds maximum allowed size")
    ELSE IF j.wfail THEN Fail(j, "writing chunk size")
    ELSE LET chunk == Take(j.buffer, size)
             encrypted == EncryptDeterministically(j.daead, chunk, j.ad)
         IN [j EXCEPT !.w = @ \o PutUint32(Len(encrypted)) \o encrypted,
                      !.buffer = Drop(@, size)]

\* The loop of streamingWriter.Write.
RECURSIVE flushFullChunks(_)
flushFullChunks(j) ==
    IF j.err = "" /\ Len(j.buffer) >= ChunkSize
    THEN flushFullChunks(flushChunk(j, ChunkSize))
    ELSE j

\* streamingWriter.Write flushing what is left of every write as a chunk.
swWriteFlushesEachWrite(j, data) ==
    CHOOSE flushed \in
        { IF full.err = "" /\ Len(full.buffer) > 0
          THEN flushChunk(full, Len(full.buffer))
          ELSE full :
            full \in {flushFullChunks([j EXCEPT !.buffer = @ \o data])} } : TRUE

\* streamingWriter.Write
swWrite(j, data) == flushFullChunks([j EXCEPT !.buffer = @ \o data])

\* Close that does not flush the tail.
swCloseDropsTail(j) == j

\* streamingWriter.Close
swClose(j) == IF Len(j.buffer) > 0 THEN flushChunk(j, Len(j.buffer)) ELSE j

\* encryptDeterministic up to its read loop: newStreamingWriter(writer,
\* p.daead, nil).
encryptDeterministicBegin(j) == [j EXCEPT !.buffer = <<>>, !.ad = <<>>]

\* encryptDeterministic returning nil: the deferred streamingWriter.Close()
\* runs and its result is dropped.
encryptDeterministicEnd(j) ==
    [swClose(j) EXCEPT !.done = TRUE, !.err = ""]

\* One iteration of encryptDeterministic's loop, the Read giving rd.
encryptDeterministicRead(j, rd) ==
    LET buf == SubSeq(j.r, j.rpos + 1, j.rpos + rd.n)
        j0 == [j EXCEPT !.rpos = @ + rd.n]
        j1 == IF rd.n > 0 THEN swWrite(j0, buf) ELSE j0
    IN IF j1.err # "" THEN j1
       ELSE IF rd.eof THEN encryptDeterministicEnd(j1) ELSE j1

\* One iteration of decryptDeterministic's loop: one frame.
decryptDeterministicFrame(j) ==
    IF Remaining(j) = 0 THEN [j EXCEPT !.done = TRUE]
    ELSE LET rl == ReadFull(j, lengthPrefixSize)
         IN IF ~rl.ok THEN Fail(rl.j, "reading chunk size")
            ELSE LET rc == ReadFull(rl.j, Uint32(rl.buf))
                 IN IF ~rc.ok THEN Fail(rc.j, "reading encrypted chunk")
                    ELSE LET dec == DecryptDeterministically(j.daead, rc.buf, <<>>)
                         IN IF ~dec.ok THEN Fail(rc.j, "decrypting chunk")
                            ELSE [rc.j EXCEPT !.w = @ \o dec.pt]

----------------------------------------------------------------------------
\* Processor

\* The processor made without a check of the key's length.
NewProcessorAnyKey(cfg) ==
    [ok |-> TRUE,
     p |-> [cfg |-> cfg, key |-> cfg.key,
            daead |-> IF ~cfg.Decrypt /\ cfg.Deterministic
                      THEN newDeterministicAEAD(cfg.key) ELSE NoDaead]]

\* NewProcessor: the key-length checks and the AEAD primitive.
NewProcessor(cfg) ==
    IF cfg.Decrypt
    THEN [ok |-> cfg.key.len \in {AesSivKeySize, AesKeySize},
          p |-> [cfg |-> cfg, key |-> cfg.key, daead |-> NoDaead]]
    ELSE IF cfg.Deterministic
    THEN [ok |-> cfg.key.len = AesSivKeySize,
          p |-> [cfg |-> cfg, key |-> cfg.key,
                 daead |-> newDeterministicAEAD(cfg.key)]]
    ELSE [ok |-> cfg.key.len = AesKeySize,
          p |-> [cfg |-> cfg, key |-> cfg.key, daead |-> NoDaead]]

\* Processor.encrypt up to the codec's read loop: the header is written first.
encryptBegin(p, r, isExec, iv) ==
    LET mode == IF p.cfg.Deterministic THEN modeDeterministic ELSE modeRandomized
        header == newEnvelopeHeader(mode, isExec)
        j == [NewJob(IF p.cfg.Deterministic THEN "encDet" ELSE "encRand", r, p.key)
                EXCEPT !.w = header, !.header = header, !.daead = p.daead]
    IN IF p.cfg.Deterministic
       THEN encryptDeterministicBegin(j)
       ELSE encryptRandomizedBegin(j, header, iv)

\* Processor.decrypt choosing the codec by the --deterministic setting.
decryptBeginByFlag(p, r) ==
    LET rf == ReadFull(NewJob("dec", r, p.key), envelopeHeaderSize)
        h == parseEnvelopeHeader(rf.buf)
    IN IF ~rf.ok THEN Fail(rf.j, "reading header")
       ELSE IF h.err # "" THEN Fail(rf.j, h.err)
       ELSE IF p.cfg.Deterministic
       THEN IF p.key.len # AesSivKeySize
            THEN Fail(rf.j, "decrypt: deterministic data requires 64-byte key")
            ELSE [rf.j EXCEPT !.op = "decDet", !.exec = h.exec,
                              !.header = rf.buf,
                              !.daead = IF p.daead = NoDaead
                                        THEN newDeterministicAEAD(p.key)
                                        ELSE p.daead]
       ELSE IF p.key.len # AesKeySize
            THEN Fail(rf.j, "decrypt: randomized data requires 32-byte key")
            ELSE decryptRandomizedBegin(
                     [rf.j EXCEPT !.op = "decRand", !.exec = h.exec], rf.buf)

\* Processor.decrypt up to the codec's read loop: the header is read and
\* parsed, and the codec is chosen by its mode byte.
decryptBegin(p, r) ==
    LET rf == ReadFull(NewJob("dec", r, p.key), envelopeHeaderSize)
        h == parseEnvelopeHeader(rf.buf)
    IN IF ~rf.ok THEN Fail(rf.j, "reading header")
       ELSE IF h.err # "" THEN Fail(rf.j, h.err)
       ELSE IF h.mode = modeDeterministic
       THEN IF p.key.len # AesSivKeySize
            THEN Fail(rf.j, "decrypt: deterministic data requires 64-byte key")
            ELSE [rf.j EXCEPT !.op = "decDet", !.exec = h.exec,
                              !.header = rf.buf,
                              !.daead = IF p.daead = NoDaead
                                        THEN newDeterministicAEAD(p.key)
                                        ELSE p.daead]
       ELSE IF p.key.len # AesKeySize
            THEN Fail(rf.j, "decrypt: randomized data requires 32-byte key")
            ELSE decryptRandomizedBegin(
                     [rf.j EXCEPT !.op = "decRand", !.exec = h.exec], rf.buf)

\* One iteration of the running codec's loop.
codecStep(j, rd) ==
    CASE j.op = "encRand" -> encryptRandomizedRead(j, rd)
      [] j.op = "encDet" -> encryptDeterministicRead(j, rd)
      [] j.op = "decRand" -> decryptRandomizedRead(j, rd)
      [] j.op = "decDet" -> decryptDeterministicFrame(j)
      [] OTHER -> j

\* The reads the running codec's next iteration may be given.
codecReads(j) ==
    IF j.op = "decDet" THEN {[n |-> 0, eof |-> FALSE]} ELSE Reads(Remaining(j))

----------------------------------------------------------------------------
\* Inputs of the model and the stored envelope's alterations

PlainBytes == {Lit(0), Lit(255)}

Plaintexts == UNION { [1..n -> PlainBytes] : n \in 0..MaxLen }

IVs == { [j \in 1..IVSize |-> b] : b \in {Lit(7), Lit(8)} }

FlipDeltas == {1, 3}

\* The read sizes of a run that reads one byte at a time.
ByteWise(j) == [n |-> Min(1, Remaining(j)), eof |-> Remaining(j) = 0]

RECURSIVE runJob(_)
runJob(j) == IF j.done THEN j ELSE runJob(codecStep(j, ByteWise(j)))

\* The envelope of r, read one byte at a time.
Envelope(p, r, isExec, iv) == runJob(encryptBegin(p, r, isExec, iv)).w

\* The frames of a deterministic body, each with its length prefix.
RECURSIVE Frames(_)
Frames(body) ==
    IF Len(body) < lengthPrefixSize THEN <<>>
    ELSE LET n == lengthPrefixSize + Uint32(Take(body, lengthPrefixSize))
         IN IF n > Len(body) THEN <<>>
            ELSE <<Take(body, n)>> \o Frames(Drop(body, n))

RECURSIVE Flatten(_)
Flatten(ss) == IF ss = <<>> THEN <<>> ELSE ss[1] \o Flatten(Tail(ss))

Complement(r) == [j \in 1..Len(r) |-> Lit(255 - r[j].v)]

NoTamper == [kind |-> "none", pos |-> 0, delta |-> 0, a |-> 0, b |-> 0]

----------------------------------------------------------------------------
\* One file through encrypt, storage and decrypt

VARIABLES plain, isExec, encCfg, decCfg, pc, job, envelope, tamper

\* A run of the processor over files: its configuration, the file system,
\* the file system as the run found it, each worker's position in
\* processFile, and where the first file's content came from.
VARIABLES fcfg, fs, old, wk, origin

\* A call of Processor.ProcessFiles: the dispatching loop and the group, the
\* goroutine of each file, the result channel and the printer goroutine.
VARIABLES sched, gor, results, printer

\* A call of one of the path functions and what it returned.
VARIABLES call, ret

codecVars == <<plain, isExec, encCfg, decCfg, pc, job, envelope, tamper>>

fileVars == <<fcfg, fs, old, wk, origin>>

schedVars == <<sched, gor, results, printer>>

fnVars == <<call, ret>>

vars == <<codecVars, fileVars, schedVars, fnVars>>

nonCodecVars == <<fileVars, schedVars, fnVars>>

nonFileVars == <<codecVars, schedVars, fnVars>>

nonSchedVars == <<codecVars, fileVars, fnVars>>

nonFnVars == <<codecVars, fileVars, schedVars>>

\* No run of the processor over files.
FileIdle ==
    /\ fcfg = [Decrypt |-> FALSE, Deterministic |-> FALSE]
    /\ fs = <<>>
    /\ old = <<>>
    /\ wk = <<>>
    /\ origin = NoTamper

\* No call of ProcessFiles.
SchedIdle ==
    /\ sched = <<>>
    /\ gor = <<>>
    /\ results = <<>>
    /\ printer = <<>>

\* No call of a path function.
FnIdle ==
    /\ call = <<>>
    /\ ret = <<>>

EncryptCfgs ==
    { c \in [Decrypt : {FALSE}, Deterministic : BOOLEAN, key : Keys] :
        NewProcessor(c).ok }

Init ==
    /\ plain \in Plaintexts
    /\ isExec \in BOOLEAN
    /\ encCfg \in EncryptCfgs
    /\ decCfg = [encCfg EXCEPT !.Decrypt = TRUE, !.Deterministic = FALSE]
    /\ pc = "start"
    /\ job = IdleJob
    /\ envelope = <<>>
    /\ tamper = NoTamper
    /\ FileIdle
    /\ SchedIdle
    /\ FnIdle

\* Processor.encrypt is entered; the randomized codec draws its IV.
EncryptStart ==
    /\ pc = "start"
    /\ \E iv \in IVs :
         /\ job' = encryptBegin(NewProcessor(encCfg).p, plain, isExec, iv)
    /\ pc' = "encrypting"
    /\ UNCHANGED <<plain, isExec, encCfg, decCfg, envelope, tamper>>
    /\ UNCHANGED nonCodecVars

\* One iteration of the encrypting codec's read loop; at its end the
\* envelope is what was written.
EncryptRead ==
    /\ pc = "encrypting"
    /\ \E rd \in codecReads(job) : job' = codecStep(job, rd)
    /\ pc' = IF job'.done THEN "stored" ELSE pc
    /\ envelope' = IF job'.done THEN job'.w ELSE envelope
    /\ UNCHANGED <<plain, isExec, encCfg, decCfg, tamper>>
    /\ UNCHANGED nonCodecVars

\* The envelope is left as it is; any key may be offered for decryption.
Keep ==
    /\ pc = "stored"
    /\ pc' = "tampered"
    /\ \E k \in Keys : decCfg' = [decCfg EXCEPT !.key = k]
    /\ UNCHANGED <<plain, isExec, encCfg, job, envelope, tamper>>
    /\ UNCHANGED nonCodecVars

\* One byte of the envelope is changed.
FlipByte ==
    /\ pc = "stored"
    /\ \E pos \in 1..Len(envelope), delta \in FlipDeltas :
         /\ envelope' = [envelope EXCEPT ![pos] = XorByte(@, delta)]
         /\ tamper' = [NoTamper EXCEPT !.kind = "flip", !.pos = pos, !.delta = delta]
    /\ pc' = "tampered"
    /\ UNCHANGED <<plain, isExec, encCfg, decCfg, job>>
    /\ UNCHANGED nonCodecVars

\* Two frames of a deterministic envelope change places.
SwapFrames ==
    /\ pc = "stored"
    /\ encCfg.Deterministic
    /\ LET fr == Frames(Drop(envelope, envelopeHeaderSize))
       IN \E a \in 1..Len(fr), b \in 1..Len(fr) :
            /\ a < b
            /\ fr[a] # fr[b]
            /\ envelope' = Take(envelope, envelopeHeaderSize)
                           \o Flatten([fr EXCEPT ![a] = fr[b], ![b] = fr[a]])
            /\ tamper' = [NoTamper EXCEPT !.kind = "swap", !.a = a, !.b = b]
    /\ pc' = "tampered"
    /\ UNCHANGED <<plain, isExec, encCfg, decCfg, job>>
    /\ UNCHANGED nonCodecVars

\* A frame is replaced by a frame of another envelope made with the same key.
SpliceFrame ==
    /\ pc = "stored"
    /\ encCfg.Deterministic
    /\ LET fr == Frames(Drop(envelope, envelopeHeaderSize))
           other == Frames(Drop(Envelope(NewProcessor(encCfg).p, Complement(plain),
                                         ~isExec, <<>>), envelopeHeaderSize))
       IN \E a \in 1..Len(fr), b \in 1..Len(other) :
            /\ fr[a] # other[b]
            /\ envelope' = Take(envelope, envelopeHeaderSize)
                           \o Flatten([fr EXCEPT ![a] = other[b]])
            /\ tamper' = [NoTamper EXCEPT !.kind = "splice", !.a = a, !.b = b]
    /\ pc' = "tampered"
    /\ UNCHANGED <<plain, isExec, encCfg, decCfg, job>>
    /\ UNCHANGED nonCodecVars

\* The envelope is cut after its first pos bytes.
Truncate ==
    /\ pc = "stored"
    /\ \E pos \in 0..(Len(envelope) - 1) :
         /\ envelope' = Take(envelope, pos)
         /\ tamper' = [NoTamper EXCEPT !.kind = "cut", !.pos = pos]
    /\ pc' = "tampered"
    /\ UNCHANGED <<plain, isExec, encCfg, decCfg, job>>
    /\ UNCHANGED nonCodecVars

\* Processor.decrypt is entered on the stored envelope.
DecryptStart ==
    /\ pc = "tampered"
    /\ NewProcessor(decCfg).ok
    /\ job' = decryptBegin(NewProcessor(decCfg).p, envelope)
    /\ pc' = IF job'.done THEN "done" ELSE "decrypting"
    /\ UNCHANGED <<plain, isExec, encCfg, decCfg, envelope, tamper>>
    /\ UNCHANGED nonCodecVars

\* One iteration of the decrypting codec's loop.
DecryptRead ==
    /\ pc = "decrypting"
    /\ \E rd \in codecReads(job) : job' = codecStep(job, rd)
    /\ pc' = IF job'.done THEN "done" ELSE pc
    /\ UNCHANGED <<plain, isExec, encCfg, decCfg, envelope, tamper>>
    /\ UNCHANGED nonCodecVars

Next ==
    \/ EncryptStart
    \/ EncryptRead
    \/ Keep
    \/ FlipByte
    \/ SwapFrames
    \/ SpliceFrame
    \/ Truncate
    \/ DecryptStart
    \/ DecryptRead

Spec == Init /\ [][Next]_vars

----------------------------------------------------------------------------
\* Files.  A path is a sequence of name parts; a file has a content, its
\* permission bits and a modification time.

RECURSIVE BitAnd(_, _)
BitAnd(a, b) ==
    IF a = 0 \/ b = 0 THEN 0
    ELSE (a % 2) * (b % 2) + 2 * BitAnd(a \div 2, b \div 2)

BitOr(a, b) == a + b - BitAnd(a, b)

HasSuffix(s, suffix) ==
    Len(s) >= Len(suffix) /\ Drop(s, Len(s) - Len(suffix)) = suffix

\* strings.TrimSuffix
TrimSuffix(s, suffix) ==
    IF HasSuffix(s, suffix) THEN Take(s, Len(s) - Len(suffix)) ELSE s

HasPrefix(s, prefix) == Len(s) >= Len(prefix) /\ Take(s, Len(prefix)) = prefix

\* strings.TrimPrefix
TrimPrefix(s, prefix) == IF HasPrefix(s, prefix) THEN Drop(s, Len(prefix)) ELSE s

\* Path names are sequences of characters; "/" separates their elements.

\* The elements of a path: what stands between the separators.
RECURSIVE SplitPath(_)
SplitPath(path) ==
    IF \A k \in 1..Len(path) : path[k] # "/" THEN <<path>>
    ELSE LET k == CHOOSE k \in 1..Len(path) :
                      path[k] = "/" /\ \A j \in 1..(k - 1) : path[j] # "/"
         IN <<Take(path, k - 1)>> \o SplitPath(Drop(path, k))

RECURSIVE JoinElems(_)
JoinElems(elems) ==
    IF elems = <<>> THEN <<>>
    ELSE IF Len(elems) = 1 THEN elems[1]
    ELSE elems[1] \o <<"/">> \o JoinElems(Tail(elems))

\* filepath.IsAbs
IsAbs(path) == HasPrefix(path, <<"/">>)

\* The elements filepath.Clean keeps: empty and "." elements are dropped, a
\* ".." removes the element before it, or is dropped at the root, or is kept
\* at the start of a relative path.
RECURSIVE CleanElems(_, _, _)
CleanElems(elems, kept, rooted) ==
    IF elems = <<>> THEN kept
    ELSE LET e == Head(elems)
             rest == Tail(elems)
         IN IF e = <<>> \/ e = <<".">> THEN CleanElems(rest, kept, rooted)
            ELSE IF e # <<".", ".">> THEN CleanElems(rest, Append(kept, e), rooted)
            ELSE IF kept # <<>> /\ kept[Len(kept)] # <<".", ".">>
            THEN CleanElems(rest, Take(kept, Len(kept) - 1), rooted)
            ELSE IF rooted THEN CleanElems(rest, kept, rooted)
            ELSE CleanElems(rest, Append(kept, e), rooted)

\* filepath.Clean
Clean(path) ==
    LET kept == JoinElems(CleanElems(SplitPath(path), <<>>, IsAbs(path)))
    IN IF IsAbs(path) THEN <<"/">> \o kept
       ELSE IF kept = <<>> THEN <<".">>
       ELSE kept

\* The index of the last separator of a path, 0 when it has none.
LastSlash(path) ==
    IF \A k \in 1..Len(path) : path[k] # "/" THEN 0
    ELSE CHOOSE k \in 1..Len(path) :
             path[k] = "/" /\ \A j \in (k + 1)..Len(path) : path[j] # "/"

\* filepath.Dir
Dir(path) == Clean(Take(path, LastSlash(path)))

RECURSIVE TrimSlashes(_)
TrimSlashes(path) ==
    IF path # <<>> /\ path[Len(path)] = "/"
    THEN TrimSlashes(Take(path, Len(path) - 1))
    ELSE path

\* filepath.Base
Base(path) ==
    IF path = <<>> THEN <<".">>
    ELSE LET trimmed == TrimSlashes(path)
         IN IF trimmed = <<>> THEN <<"/">>
            ELSE Drop(trimmed, LastSlash(trimmed))

\* filepath.Join of two elements
Join(dir, name) ==
    IF dir = <<>> /\ name = <<>> THEN <<>>
    ELSE IF dir = <<>> THEN Clean(name)
    ELSE IF name = <<>> THEN Clean(dir)
    ELSE Clean(dir \o <<"/">> \o name)

\* The output name built by concatenation alone.
outputPathConcatenated(cfg, filename) ==
    IF cfg.Decrypt
    THEN TrimSuffix(filename, cfg.Suffixes.Encrypt) \o cfg.Suffixes.Decrypt
    ELSE filename \o cfg.Suffixes.Encrypt

\* The output name with the encrypt-ext left in place on decrypt.
outputPathNoStrip(cfg, filename) ==
    Join(Dir(filename),
         Base(filename) \o (IF cfg.Decrypt THEN cfg.Suffixes.Decrypt
                            ELSE cfg.Suffixes.Encrypt))

\* Processor.outputPath
outputPath(cfg, filename) ==
    LET name == IF cfg.Decrypt
                THEN TrimSuffix(filename, cfg.Suffixes.Encrypt)
                ELSE filename
        ext == IF cfg.Decrypt THEN cfg.Suffixes.Decrypt ELSE cfg.Suffixes.Encrypt
    IN Join(Dir(name), Base(name) \o ext)

NoFile == [exists |-> FALSE, content |-> <<>>, mode |-> 0, mtime |-> 0]

NewFile(content, mode, mtime) ==
    [exists |-> TRUE, content |-> content, mode |-> mode, mtime |-> mtime]

\* os.File.Read on a regular file: the buffer is filled while bytes are left,
\* then 0 bytes and io.EOF.
FileRead(j) == [n |-> Min(Remaining(j), MaxRead), eof |-> Remaining(j) = 0]

----------------------------------------------------------------------------
\* The inputs of a run

FileIds == {1, 2}

FileName(i) == IF i = 1 THEN "a" ELSE "b"

DefaultSuffixes == [Encrypt |-> <<".", "e", "n", "c">>, Decrypt |-> <<>>]

Key32 == CHOOSE k \in Keys : k.id = 0

Key64 == CHOOSE k \in Keys : k.id = 2

\* A key that fits neither mode.
Key16 == [len |-> AesKeySize \div 2, id |-> 4]

\* The configurations of a run; --deterministic plays no part in decrypt.
RunCfgs ==
    { c \in [Decrypt : BOOLEAN, Deterministic : BOOLEAN,
             key : {Key16, Key32, Key64},
             PreserveTimestamps : BOOLEAN, Suffixes : {DefaultSuffixes}] :
        c.Decrypt => ~c.Deterministic }

\* The decrypt runs, with --deterministic set or not.
DecryptCfgs ==
    [Decrypt : {TRUE}, Deterministic : BOOLEAN, key : {Key16, Key32, Key64},
     PreserveTimestamps : {FALSE}, Suffixes : {DefaultSuffixes}]

InputPath(cfg, i) ==
    IF cfg.Decrypt THEN <<FileName(i)>> \o cfg.Suffixes.Encrypt ELSE <<FileName(i)>>

\* The output written in place, under its final name.
TmpPathIsOutput(i) == outputPath(fcfg, InputPath(fcfg, i))

\* os.CreateTemp(filepath.Dir(outPath), ".tmp-*"): a fresh name per call.
TmpPath(i) == <<".", "t", "m", "p", "-", FileName(i)>>

Paths(cfg) ==
    UNION { {InputPath(cfg, i), outputPath(cfg, InputPath(cfg, i)), TmpPath(i)} :
            i \in FileIds }

FilePlain == [j \in 1..(ChunkSize + 1) |-> IF j % 2 = 1 THEN Lit(0) ELSE Lit(255)]

FilePlains == {<<>>, FilePlain}

\* Source permissions: rw-r--r--, rwxr-xr-x and rw-r-x---.
SrcModes == {420, 493, 424}

\* The permissions a stored envelope may have.
EnvelopeModes == {420, 493}

FirstIV == [j \in 1..IVSize |-> Lit(7)]

\* The envelope an earlier encrypt run made of r.
StoredEnvelope(r, exec, det) ==
    Envelope(NewProcessor([Decrypt |-> FALSE, Deterministic |-> det,
                           key |-> IF det THEN Key64 ELSE Key32]).p,
             r, exec, FirstIV)

Origin(kind, r, exec, det, pos, delta) ==
    [kind |-> kind, plain |-> r, exec |-> exec, det |-> det, pos |-> pos,
     delta |-> delta]

\* The bytes of a randomized envelope a run with this key changes: with the
\* deterministic key, which decrypt refuses for randomized data right after
\* the header, the header's bytes only.
FlipPositions(cfg, env) ==
    IF cfg.key.len = AesKeySize THEN 1..Len(env) ELSE 1..envelopeHeaderSize

\* What the first file may hold: for encrypt a plaintext; for decrypt an
\* envelope as stored, a randomized envelope (of a file that was not
\* executable) with one byte changed, or a file that is no envelope.
Inputs(cfg) ==
    IF ~cfg.Decrypt
    THEN { [content |-> r, origin |-> Origin("plain", r, FALSE, FALSE, 0, 0)] :
           r \in FilePlains }
    ELSE { [content |-> StoredEnvelope(x.r, x.exec, x.det),
            origin |-> Origin("valid", x.r, x.exec, x.det, 0, 0)] :
           x \in [r : FilePlains, exec : BOOLEAN, det : BOOLEAN] }
         \cup
         UNION { LET env == StoredEnvelope(r, FALSE, FALSE)
                 IN { [content |-> [env EXCEPT ![y.pos] = XorByte(@, y.delta)],
                       origin |-> Origin("flip", r, FALSE, FALSE, y.pos, y.delta)] :
                      y \in [pos : FlipPositions(cfg, env), delta : FlipDeltas] } :
                 r \in FilePlains }
         \cup
         { [content |-> r, origin |-> Origin("garbage", r, FALSE, FALSE, 0, 0)] :
           r \in {FilePlain, Take(FilePlain, 1)} }

\* What the second file holds: an input the run accepts.
DefaultInput(cfg) ==
    IF cfg.Decrypt
    THEN StoredEnvelope(Take(FilePlain, 1), FALSE, cfg.key.len = AesSivKeySize)
    ELSE Take(FilePlain, 1)

OldContent == <<Lit(1)>>

IdleWorker(cfg, i) ==
    [ pc |-> "new", file |-> InputPath(cfg, i),
      outPath |-> outputPath(cfg, InputPath(cfg, i)), TmpName |-> <<>>,
      IsExec |-> FALSE, ModTime |-> 0, job |-> IdleJob, err |-> "",
      size |-> 0, renamed |-> FALSE, opened |-> FALSE ]

\* No codec run on its own.
CodecIdle ==
    /\ plain = <<>>
    /\ isExec = FALSE
    /\ encCfg = [Decrypt |-> FALSE, Deterministic |-> FALSE, key |-> Key32]
    /\ decCfg = [Decrypt |-> TRUE, Deterministic |-> FALSE, key |-> Key32]
    /\ pc = "file"
    /\ job = IdleJob
    /\ envelope = <<>>
    /\ tamper = NoTamper

FileInitIn(cfgs) ==
    /\ fcfg \in cfgs
    /\ \E inp \in Inputs(fcfg), hadOld \in BOOLEAN,
          m \in IF fcfg.Decrypt THEN EnvelopeModes ELSE SrcModes :
         /\ origin = inp.origin
         /\ fs = [ path \in Paths(fcfg) |->
                     CASE path = InputPath(fcfg, 1) -> NewFile(inp.content, m, 1)
                       [] path = InputPath(fcfg, 2) ->
                            NewFile(DefaultInput(fcfg), 420, 1)
                       [] path = outputPath(fcfg, InputPath(fcfg, 1)) /\ hadOld ->
                            NewFile(OldContent, 420, 1)
                       [] OTHER -> NoFile ]
    /\ old = fs
    /\ wk = [i \in FileIds |-> IdleWorker(fcfg, i)]
    /\ CodecIdle
    /\ SchedIdle
    /\ FnIdle

----------------------------------------------------------------------------
\* Processor.processFile, one worker per file.  Every system call may fail.

\* Run: encryption.NewProcessor(cfg), and on an error the command returns
\* it without calling ProcessFiles.
RunNewProcessor ==
    /\ \A i \in FileIds : wk[i].pc = "new"
    /\ wk' = [i \in FileIds |->
                IF NewProcessor(fcfg).ok
                THEN [wk[i] EXCEPT !.pc = "start"]
                ELSE [wk[i] EXCEPT !.pc = "refused",
                                   !.err = "creating processor"]]
    /\ UNCHANGED <<fcfg, fs, old, origin>>
    /\ UNCHANGED nonFileVars

\* The deferred calls run and processFile returns.
Return(w, e) == [w EXCEPT !.pc = "cleanup", !.err = e]

\* The codec has written j.w to the temporary file so far.
Written(i, w, j) ==
    /\ fs' = [fs EXCEPT ![w.TmpName].content = j.w]
    /\ wk' = [wk EXCEPT ![i] =
                IF ~j.done THEN [w EXCEPT !.pc = "codec", !.job = j]
                ELSE IF j.err = "" THEN [w EXCEPT !.pc = "chmod", !.job = j]
                ELSE Return([w EXCEPT !.job = j],
                            IF fcfg.Decrypt THEN "decrypting file"
                            ELSE "encrypting file")]

\* fileutil.NewTempContext: os.Stat of the source, then os.CreateTemp next to
\* the output.  On failure nothing is deferred yet.
NewTempContext(i) ==
    LET w == wk[i] IN
    /\ w.pc = "start"
    /\ \E statOk \in BOOLEAN, createOk \in BOOLEAN :
         IF statOk /\ fs[w.file].exists /\ createOk
         THEN /\ fs' = [fs EXCEPT ![TmpPath(i)] = NewFile(<<>>, ownerReadWrite, 2)]
              /\ wk' = [wk EXCEPT ![i] =
                          [w EXCEPT !.pc = "open", !.TmpName = TmpPath(i),
                                    !.IsExec = BitAnd(fs[w.file].mode,
                                                      executableBits) # 0,
                                    !.ModTime = fs[w.file].mtime]]
         ELSE /\ wk' = [wk EXCEPT ![i] =
                          [w EXCEPT !.pc = "returned",
                                    !.err = "preparing atomic write"]]
              /\ UNCHANGED fs
    /\ UNCHANGED <<fcfg, old, origin>>
    /\ UNCHANGED nonFileVars

\* os.Open of the input, then Processor.encrypt or Processor.decrypt up to
\* the codec's first read.
OpenInput(i) ==
    LET w == wk[i]
        o == [w EXCEPT !.opened = TRUE]
        p == NewProcessor(fcfg).p
        r == fs[w.file].content
    IN
    /\ w.pc = "open"
    /\ \E openOk \in BOOLEAN :
         IF ~openOk
         THEN /\ wk' = [wk EXCEPT ![i] = Return(w, "opening input file")]
              /\ UNCHANGED fs
         ELSE IF fcfg.Decrypt
         THEN Written(i, o, decryptBegin(p, r))
         ELSE Written(i, o, encryptBegin(p, r, w.IsExec, FirstIV))
    /\ UNCHANGED <<fcfg, old, origin>>
    /\ UNCHANGED nonFileVars

\* One iteration of the codec's loop over the input file, or a failed read
\* or write that the loop returns.  In the deterministic encrypt the
\* temporary file may also refuse the writes of the streaming writer, those
\* of the deferred Close included.
CodecRead(i) ==
    LET w == wk[i] IN
    /\ w.pc = "codec"
    /\ \E ioOk \in BOOLEAN,
          writeOk \in IF w.job.op = "encDet" THEN BOOLEAN ELSE {TRUE} :
         IF ioOk
         THEN Written(i, w, [codecStep([w.job EXCEPT !.wfail = ~writeOk],
                                       FileRead(w.job))
                               EXCEPT !.wfail = FALSE])
         ELSE Written(i, w, Fail(w.job, "input/output error"))
    /\ UNCHANGED <<fcfg, old, origin>>
    /\ UNCHANGED nonFileVars

\* The permissions with the executable flag ignored.
outputPermOwnerOnly(flag) == ownerReadWrite

\* perm := os.FileMode(ownerReadWrite); perm |= 0o111 when the flag is set.
outputPerm(flag) ==
    IF flag THEN BitOr(ownerReadWrite, executableBits) ELSE ownerReadWrite

\* os.Chmod(tc.TmpName, perm)
Chmod(i) ==
    LET w == wk[i]
        perm == outputPerm(IF fcfg.Decrypt THEN w.job.exec ELSE w.IsExec)
    IN
    /\ w.pc = "chmod"
    /\ \E chmodOk \in BOOLEAN :
         IF chmodOk
         THEN /\ fs' = [fs EXCEPT ![w.TmpName].mode = perm]
              /\ wk' = [wk EXCEPT ![i] = [w EXCEPT !.pc = "closeTmp"]]
         ELSE /\ wk' = [wk EXCEPT ![i] = Return(w, "setting file permissions")]
              /\ UNCHANGED fs
    /\ UNCHANGED <<fcfg, old, origin>>
    /\ UNCHANGED nonFileVars

\* tc.TmpFile.Close()
CloseTmp(i) ==
    LET w == wk[i] IN
    /\ w.pc = "closeTmp"
    /\ \E closeOk \in BOOLEAN :
         wk' = [wk EXCEPT ![i] =
                  IF closeOk THEN [w EXCEPT !.pc = "closeIn"]
                  ELSE Return(w, "closing temporary file")]
    /\ UNCHANGED <<fcfg, fs, old, origin>>
    /\ UNCHANGED nonFileVars

\* inFile.Close()
CloseInput(i) ==
    LET w == wk[i] IN
    /\ w.pc = "closeIn"
    /\ \E closeOk \in BOOLEAN :
         wk' = [wk EXCEPT ![i] =
                  IF closeOk THEN [w EXCEPT !.pc = "rename"]
                  ELSE Return(w, "closing input file")]
    /\ UNCHANGED <<fcfg, fs, old, origin>>
    /\ UNCHANGED nonFileVars

\* os.Rename(tc.TmpName, outPath)
Rename(f, w) == [f EXCEPT ![w.outPath] = f[w.TmpName], ![w.TmpName] = NoFile]

RenameOutput(i) ==
    LET w == wk[i] IN
    /\ w.pc = "rename"
    /\ \E renameOk \in BOOLEAN :
         IF renameOk
         THEN /\ fs' = Rename(fs, w)
              /\ wk' = [wk EXCEPT ![i] =
                          [w EXCEPT !.pc = "finalize", !.renamed = TRUE]]
         ELSE /\ wk' = [wk EXCEPT ![i] = Return(w, "renaming output file")]
              /\ UNCHANGED fs
    /\ UNCHANGED <<fcfg, old, origin>>
    /\ UNCHANGED nonFileVars

\* fileutil.FinalizeOutput: os.Chtimes when timestamps are preserved, then
\* os.Stat for the size.
FinalizeOutput(i) ==
    LET w == wk[i] IN
    /\ w.pc = "finalize"
    /\ \E chtimesOk \in BOOLEAN, statOk \in BOOLEAN :
         IF fcfg.PreserveTimestamps /\ ~chtimesOk
         THEN /\ wk' = [wk EXCEPT ![i] = Return(w, "finalizing output")]
              /\ UNCHANGED fs
         ELSE /\ fs' = IF fcfg.PreserveTimestamps
                       THEN [fs EXCEPT ![w.outPath].mtime = w.ModTime]
                       ELSE fs
              /\ wk' = [wk EXCEPT ![i] =
                          IF statOk
                          THEN [Return(w, "") EXCEPT
                                  !.size = Len(fs[w.outPath].content)]
                          ELSE Return(w, "finalizing output")]
    /\ UNCHANGED <<fcfg, old, origin>>
    /\ UNCHANGED nonFileVars

\* The deferred cleanup that does not see the error processFile returns.
CleanupKeepsTemp(f, w) == f

\* TempContext.CleanupOnError, deferred: the temporary file is removed when
\* processFile returns an error.  os.Remove of a name that is gone does
\* nothing.
Cleanup(f, w) == IF w.err # "" THEN [f EXCEPT ![w.TmpName] = NoFile] ELSE f

CleanupOnError(i) ==
    LET w == wk[i] IN
    /\ w.pc = "cleanup"
    /\ fs' = Cleanup(fs, w)
    /\ wk' = [wk EXCEPT ![i] = [w EXCEPT !.pc = "returned"]]
    /\ UNCHANGED <<fcfg, old, origin>>
    /\ UNCHANGED nonFileVars

FileNext ==
    \/ RunNewProcessor
    \/ \E i \in FileIds :
        \/ NewTempContext(i)
        \/ OpenInput(i)
        \/ CodecRead(i)
        \/ Chmod(i)
        \/ CloseTmp(i)
        \/ CloseInput(i)
        \/ RenameOutput(i)
        \/ FinalizeOutput(i)
        \/ CleanupOnError(i)

FileInit == FileInitIn(RunCfgs)

SpecFile == FileInit /\ [][FileNext]_vars

DecryptInit == FileInitIn(DecryptCfgs)

SpecDecrypt == DecryptInit /\ [][FileNext]_vars

----------------------------------------------------------------------------
\* Processor.ProcessFiles: an errgroup.Group with a limit starts one goroutine
\* per file; each posts one Result to the buffered channel; the printer
\* goroutine counts them.  processFile is seen here by what it returns.

NoError == ""

\* What processFile may return: an error, before or after its os.Rename, or
\* the size of the output it renamed into place.
Outcomes ==
    { [err |-> "processing failed", size |-> 0, renamed |-> rn] :
        rn \in BOOLEAN }
        \cup { [err |-> NoError, size |-> n, renamed |-> TRUE] :
                  n \in 0..MaxOutputSize }

SchedCfgs == [Files : 1..MaxFiles, Parallel : 1..MaxFiles, Delete : BOOLEAN]

Files(cfg) == 1..cfg.Files

IdleGoroutine == [pc |-> "idle", err |-> NoError, size |-> 0, renamed |-> FALSE]

\* Every worker limit the configuration accepts: Config.Parallel carries no
\* validation, so 0 and negative numbers pass.
AcceptedCfgs ==
    [Files : 1..MaxFiles, Parallel : -1..MaxFiles, Delete : {FALSE}]

SchedInitIn(cfgs) ==
    /\ \E cfg \in cfgs :
         /\ sched = [cfg |-> cfg, pc |-> "loop", next |-> 1, sem |-> 0,
                     wg |-> 0, err |-> NoError,
                     ret |-> [processed |-> 0, errored |-> 0, totalSize |-> 0,
                              err |-> NoError]]
         /\ gor = [i \in Files(cfg) |-> IdleGoroutine]
    /\ results = [queue |-> <<>>, closed |-> FALSE]
    /\ printer = [pc |-> "range", processed |-> 0, errored |-> 0,
                  totalSize |-> 0, log |-> <<>>, deleted |-> {},
                  removeErrors |-> {}]
    /\ CodecIdle
    /\ FileIdle
    /\ FnIdle

SchedInit == SchedInitIn(SchedCfgs)

\* A group that starts a goroutine whatever the limit.
CanGoUnlimited(g) == TRUE

\* errgroup.Group.Go with SetLimit(p.cfg.Parallel): g.sem <- token{} blocks
\* while Parallel goroutines hold a token; a negative limit is no limit, and
\* with the limit 0 the send never goes through.
CanGo(g) == g.cfg.Parallel < 0 \/ g.sem < g.cfg.Parallel

\* for _, file := range p.cfg.Files { group.Go(...) }
Go ==
    /\ sched.pc = "loop"
    /\ sched.next \in Files(sched.cfg)
    /\ CanGo(sched)
    /\ sched' = [sched EXCEPT !.sem = @ + 1, !.wg = @ + 1, !.next = @ + 1]
    /\ gor' = [gor EXCEPT ![sched.next].pc = "run"]
    /\ UNCHANGED <<results, printer>>
    /\ UNCHANGED nonSchedVars

\* size, err := p.processFile(file, outPath)
ProcessFile(i) ==
    /\ i \in DOMAIN gor
    /\ gor[i].pc = "run"
    /\ \E out \in Outcomes :
         gor' = [gor EXCEPT ![i] = [pc |-> "post", err |-> out.err,
                                    size |-> out.size, renamed |-> out.renamed]]
    /\ UNCHANGED <<sched, results, printer>>
    /\ UNCHANGED nonSchedVars

\* The Result a goroutine posts.
Result(i, g) ==
    IF g.err # NoError
    THEN [Input |-> i, Error |-> g.err, OutputSize |-> 0]
    ELSE [Input |-> i, Error |-> NoError, OutputSize |-> g.size]

\* p.results <- Result{...}: the channel has room for one result per file.
Post(i) ==
    /\ i \in DOMAIN gor
    /\ gor[i].pc = "post"
    /\ Len(results.queue) < sched.cfg.Files
    /\ results' = [results EXCEPT !.queue = Append(@, Result(i, gor[i]))]
    /\ gor' = [gor EXCEPT ![i].pc = "return"]
    /\ UNCHANGED <<sched, printer>>
    /\ UNCHANGED nonSchedVars

\* A goroutine that returns nil whatever processFile returned.
workerReturnsNil(g) == NoError

\* return err / return nil of the function given to group.Go
workerReturns(g) == g.err

\* The goroutine returns: errgroup keeps the first non-nil error, then
\* releases the token and the wait group.
GoReturn(i) ==
    /\ i \in DOMAIN gor
    /\ gor[i].pc = "return"
    /\ sched' = [sched EXCEPT
                   !.err = IF @ = NoError THEN workerReturns(gor[i]) ELSE @,
                   !.sem = @ - 1, !.wg = @ - 1]
    /\ gor' = [gor EXCEPT ![i].pc = "done"]
    /\ UNCHANGED <<results, printer>>
    /\ UNCHANGED nonSchedVars

\* A dispatcher that closes the channel as soon as every goroutine was
\* started.
CloseWithoutWait ==
    /\ sched.pc = "loop"
    /\ sched.next \notin Files(sched.cfg)
    /\ sched' = [sched EXCEPT !.pc = "drain"]
    /\ results' = [results EXCEPT !.closed = TRUE]
    /\ UNCHANGED <<gor, printer>>
    /\ UNCHANGED nonSchedVars

\* err = group.Wait(); close(p.results)
WaitAndClose ==
    /\ sched.pc = "loop"
    /\ sched.next \notin Files(sched.cfg)
    /\ sched.wg = 0
    /\ sched' = [sched EXCEPT !.pc = "drain"]
    /\ results' = [results EXCEPT !.closed = TRUE]
    /\ UNCHANGED <<gor, printer>>
    /\ UNCHANGED nonSchedVars

\* A printer that counts every result as processed.
TallyAllProcessed(pr, result) ==
    [pr EXCEPT !.processed = @ + 1, !.totalSize = @ + result.OutputSize,
               !.log = Append(@, result)]

\* The counters of the printer goroutine after one result.
Tally(pr, result) ==
    IF result.Error # NoError
    THEN [pr EXCEPT !.errored = @ + 1, !.log = Append(@, result)]
    ELSE [pr EXCEPT !.processed = @ + 1, !.totalSize = @ + result.OutputSize,
                    !.log = Append(@, result)]

\* A printer that removes the input of every result when --delete is set.
removesInputOfAnyResult(cfg, result) == cfg.Delete

\* if p.cfg.Delete && result.Error == nil
removesInput(cfg, result) == cfg.Delete /\ result.Error = NoError

\* One iteration of for result := range p.results, with the os.Remove of the
\* input when --delete is set and the file succeeded; a failed removal is
\* printed ("Error deleting").
Consume ==
    /\ printer.pc = "range"
    /\ results.queue # <<>>
    /\ LET result == Head(results.queue)
           pr == Tally(printer, result)
       IN \E removeOk \in BOOLEAN :
            printer' = IF ~removesInput(sched.cfg, result) THEN pr
                       ELSE IF removeOk
                       THEN [pr EXCEPT !.deleted = @ \cup {result.Input}]
                       ELSE [pr EXCEPT !.removeErrors = @ \cup {result.Input}]
    /\ results' = [results EXCEPT !.queue = Tail(@)]
    /\ UNCHANGED <<sched, gor>>
    /\ UNCHANGED nonSchedVars

\* The range over the closed, drained channel ends: close(done).
PrinterDone ==
    /\ printer.pc = "range"
    /\ results.queue = <<>>
    /\ results.closed
    /\ printer' = [printer EXCEPT !.pc = "done"]
    /\ UNCHANGED <<sched, gor, results>>
    /\ UNCHANGED nonSchedVars

\* <-done, then return processed, errored, totalSize and the group's error.
ProcessFilesReturn ==
    /\ sched.pc = "drain"
    /\ printer.pc = "done"
    /\ sched' = [sched EXCEPT
                   !.pc = "returned",
                   !.ret = [processed |-> printer.processed,
                            errored |-> printer.errored,
                            totalSize |-> printer.totalSize,
                            err |-> IF sched.err # NoError
                                    THEN "processing files" ELSE NoError]]
    /\ UNCHANGED <<gor, results, printer>>
    /\ UNCHANGED nonSchedVars

SchedNext ==
    \/ Go
    \/ \E i \in 1..MaxFiles :
           \/ ProcessFile(i)
           \/ Post(i)
           \/ GoReturn(i)
    \/ WaitAndClose
    \/ Consume
    \/ PrinterDone
    \/ ProcessFilesReturn

SpecSched == SchedInit /\ [][SchedNext]_vars

SchedFairInit == SchedInitIn(AcceptedCfgs)

\* The Go scheduler runs a goroutine that can take a step.
SpecSchedFair == SchedFairInit /\ [][SchedNext]_vars /\ WF_vars(SchedNext)

----------------------------------------------------------------------------
\* The output path of a job, in a real run and in a dry run

\* logic.outputPath, which dryRun prints.
dryRunOutputPath(filename, cfg) ==
    LET name == IF cfg.Decrypt
                THEN TrimSuffix(filename, cfg.Suffixes.Encrypt)
                ELSE filename
        ext == IF cfg.Decrypt THEN cfg.Suffixes.Decrypt ELSE cfg.Suffixes.Encrypt
    IN Join(Dir(name), Base(name) \o ext)

PathChars == {"a", "e", ".", "/"}

Strings(chars, n) == UNION { [1..k -> chars] : k \in 0..n }

\* The paths Resolve hands to the processor: cleaned, relative, inside the
\* working directory, and naming a file.
ResolvedPaths ==
    { path \in Strings(PathChars, MaxPath) :
        /\ Clean(path) = path
        /\ ~IsAbs(path)
        /\ path # <<".">>
        /\ SplitPath(path)[1] # <<".", ".">> }

Exts == {<<>>, <<".">>, <<"e">>, <<".", "e">>}

PathCfgs == [Decrypt : BOOLEAN, Suffixes : [Encrypt : Exts, Decrypt : Exts]]

PathInit ==
    /\ call \in [fn : {"outputPath"}, cfg : PathCfgs, filename : ResolvedPaths,
                 round : {1}, input : {<<>>}]
    /\ ret = <<>>
    /\ CodecIdle
    /\ FileIdle
    /\ SchedIdle

\* The output path of the job is computed, by the processor and by the dry
\* run.
CallOutputPath ==
    /\ call.fn = "outputPath"
    /\ ret = <<>>
    /\ ret' = [real |-> outputPath(call.cfg, call.filename),
               dry |-> dryRunOutputPath(call.filename, call.cfg)]
    /\ UNCHANGED call
    /\ UNCHANGED nonFnVars

\* A later run decrypts, with the same suffixes, the file the encrypt run
\* wrote.
DecryptEncrypted ==
    /\ call.fn = "outputPath"
    /\ call.round = 1
    /\ ~call.cfg.Decrypt
    /\ ret # <<>>
    /\ call' = [call EXCEPT !.cfg.Decrypt = TRUE, !.filename = ret.real,
                            !.round = 2, !.input = call.filename]
    /\ ret' = <<>>
    /\ UNCHANGED nonFnVars

PathNext == CallOutputPath \/ DecryptEncrypted

SpecPath == PathInit /\ [][PathNext]_vars

----------------------------------------------------------------------------
\* Properties of the codecs

SameKey == decCfg.key = encCfg.key

\* C1: decrypting, with the key it was made with, the randomized envelope of
\* any plaintext writes exactly that plaintext and reports no error, whatever
\* the sizes of the reads on either side.
C1_RandomizedRoundTrip ==
    (pc = "done" /\ ~encCfg.Deterministic /\ tamper.kind = "none" /\ SameKey)
        => (job.err = "" /\ job.w = plain)

C1_Witness ==
    /\ pc = "done" /\ ~encCfg.Deterministic /\ tamper.kind = "none" /\ SameKey
    /\ job.op = "decRand" /\ job.err = ""
    /\ Len(plain) = MaxLen /\ job.w = plain

\* C2: decrypting, with the key it was made with, the deterministic envelope
\* of any plaintext (empty, shorter than a chunk, a chunk, several chunks)
\* writes exactly that plaintext and reports no error.
C2_DeterministicRoundTrip ==
    (pc = "done" /\ encCfg.Deterministic /\ tamper.kind = "none" /\ SameKey)
        => (job.err = "" /\ job.w = plain)

C2_Witness ==
    /\ pc = "done" /\ encCfg.Deterministic /\ tamper.kind = "none" /\ SameKey
    /\ job.op = "decDet" /\ job.err = ""
    /\ Len(plain) > ChunkSize /\ Len(plain) % ChunkSize # 0 /\ job.w = plain

\* C6: decrypting a deterministic envelope whose header was altered in any
\* byte fails.
C6_DeterministicHeaderAuthenticated ==
    (/\ pc = "done" /\ encCfg.Deterministic /\ SameKey
     /\ tamper.kind = "flip" /\ tamper.pos <= envelopeHeaderSize)
        => job.err # ""

\* C7: decrypting a deterministic envelope in which two frames were swapped,
\* or a frame was replaced by a frame of another envelope under the same key,
\* fails.
C7_FramesBoundToHeaderAndIndex ==
    (pc = "done" /\ tamper.kind \in {"swap", "splice"}) => job.err # ""

\* C8: decrypting a deterministic envelope cut anywhere in its body, at a
\* frame boundary, inside a length prefix or inside a payload, fails.
C8_TruncationDetected ==
    (/\ pc = "done" /\ encCfg.Deterministic
     /\ tamper.kind = "cut" /\ tamper.pos >= envelopeHeaderSize)
        => job.err # ""

\* C9: the deterministic envelope is the same for every sequence of read
\* sizes and every draw of the random source: it is the envelope of a run
\* that reads the same content, key and executable flag one byte at a time.
C9_DeterministicEnvelopeIsAFunction ==
    (pc = "stored" /\ encCfg.Deterministic)
        => envelope = Envelope(NewProcessor(encCfg).p, plain, isExec, <<>>)

C9_Witness ==
    /\ pc = "stored" /\ encCfg.Deterministic
    /\ Len(plain) = MaxLen
    /\ Len(Frames(Drop(envelope, envelopeHeaderSize))) >= 2

----------------------------------------------------------------------------
\* Properties of processFile (SpecFile)

\* What the codec makes of file i as the run found it, read a byte at a time.
ReferenceJob(i) ==
    LET src == old[InputPath(fcfg, i)]
        p == NewProcessor(fcfg).p
    IN runJob(IF fcfg.Decrypt
              THEN decryptBegin(p, src.content)
              ELSE encryptBegin(p, src.content,
                                BitAnd(src.mode, executableBits) # 0, FirstIV))

OutPath(i) == outputPath(fcfg, InputPath(fcfg, i))

\* C3: at every point of every interleaving of the workers, with any step
\* failing, each output path holds what it held before the run (or nothing)
\* or the complete output of the codec; the inputs are untouched.
C3_AtomicReplacement ==
    \A i \in FileIds :
        /\ fs[InputPath(fcfg, i)] = old[InputPath(fcfg, i)]
        /\ \/ fs[OutPath(i)] = old[OutPath(i)]
           \/ /\ ReferenceJob(i).err = ""
              /\ fs[OutPath(i)].exists
              /\ fs[OutPath(i)].content = ReferenceJob(i).w

\* The second file's output is in place in full while the first file's
\* output is partly written under its temporary name only, its output path
\* still holding the older file.
C3_Witness ==
    /\ wk[2].renamed
    /\ ~old[OutPath(2)].exists
    /\ fs[OutPath(2)].content = ReferenceJob(2).w
    /\ wk[1].pc = "codec"
    /\ fs[TmpPath(1)].content \notin {<<>>, ReferenceJob(1).w}
    /\ old[OutPath(1)].exists
    /\ fs[OutPath(1)] = old[OutPath(1)]

C5_RandomizedFlipRejected ==
    origin.kind = "flip"
        => /\ fs[OutPath(1)] = old[OutPath(1)]
           /\ wk[1].pc \in {"cleanup", "returned"} => wk[1].err # ""

\* Authentication failed after plaintext had been streamed to the temporary
\* file, and no file is at the output path.
C5_Witness ==
    /\ origin.kind = "flip"
    /\ origin.pos > envelopeHeaderSize + IVSize
    /\ wk[1].pc = "returned"
    /\ wk[1].job.err = "authentication failed"
    /\ wk[1].job.w # <<>>
    /\ ~fs[OutPath(1)].exists
    /\ ~fs[TmpPath(1)].exists

\* The executable flag that applies to file i: any executable bit of the
\* source on encrypt, bit 0 of the stored flags byte on decrypt.
ExecFlag(i) ==
    LET src == old[InputPath(fcfg, i)]
    IN IF fcfg.Decrypt
       THEN ByteVal(src.content[Len(envelopeMagic) + 2]) % 2 = 1
       ELSE \E bit \in {1, 8, 64} : (src.mode \div bit) % 2 = 1

\* C10: a renamed output has exactly the permissions 0o600, plus 0o111 iff
\* the executable flag applies; an encrypted output carries that flag in bit
\* 0 of its flags byte, so that decrypting it restores 0o111.
C10_OutputPermissions ==
    \A i \in FileIds :
        wk[i].renamed
            => /\ fs[OutPath(i)].mode =
                    IF ExecFlag(i) THEN ownerReadWrite + executableBits
                    ELSE ownerReadWrite
               /\ ~fcfg.Decrypt =>
                    (ByteVal(fs[OutPath(i)].content[Len(envelopeMagic) + 2]) % 2 = 1)
                        = ExecFlag(i)

\* An envelope of an executable file, itself stored without executable
\* bits, has been decrypted to a file with 0o111 set.
C10_Witness ==
    /\ fcfg.Decrypt
    /\ origin.kind = "valid"
    /\ origin.exec
    /\ old[InputPath(fcfg, 1)].mode = 420
    /\ wk[1].renamed
    /\ fs[OutPath(1)].mode = ownerReadWrite + executableBits
    /\ fs[OutPath(1)].content = origin.plain

\* The mode a run of cfg uses on file i: the configured one on encrypt, the
\* one the stored header names on decrypt (0 when the file holds no header).
ModeInUse(cfg, i) ==
    LET src == old[InputPath(cfg, i)].content
        h == parseEnvelopeHeader(Take(src, envelopeHeaderSize))
    IN IF ~cfg.Decrypt
       THEN IF cfg.Deterministic THEN modeDeterministic ELSE modeRandomized
       ELSE IF Len(src) >= envelopeHeaderSize /\ h.err = "" THEN h.mode ELSE 0

\* The key has the wrong length for the mode used on file i.
WrongKey(cfg, i) ==
    \/ ModeInUse(cfg, i) = modeDeterministic /\ cfg.key.len # AesSivKeySize
    \/ ModeInUse(cfg, i) = modeRandomized /\ cfg.key.len # AesKeySize

\* The key is refused whatever the files hold.
KeyRefused(cfg) ==
    IF cfg.Decrypt THEN cfg.key.len \notin {AesKeySize, AesSivKeySize}
    ELSE WrongKey(cfg, 1)

\* C14 as stated: with a key of the wrong length for the mode, no temporary
\* file is created and no input file is opened, on encrypt and on decrypt.
C14_WrongKeyFailsBeforeIO ==
    \A i \in FileIds :
        WrongKey(fcfg, i) => wk[i].TmpName = <<>> /\ ~wk[i].opened

\* C14, amended: a key NewProcessor refuses (on encrypt the wrong length for
\* the mode, on decrypt neither 32 nor 64 bytes) ends the run with no
\* temporary file created, no input opened and the files as they were.  On
\* decrypt with a key of 32 or 64 bytes that does not fit the mode the
\* header names, the input is opened and the header read: decrypt fails
\* with nothing read past the header and nothing written, and once
\* processFile has returned, it returned an error, the temporary file is
\* gone and the output path is as it was.
C14_WrongKeyFailsBeforeBody ==
    /\ KeyRefused(fcfg) =>
          /\ fs = old
          /\ \A i \in FileIds :
                /\ wk[i].pc \in {"new", "refused"}
                /\ wk[i].TmpName = <<>>
                /\ ~wk[i].opened
    /\ \A i \in FileIds :
          (~KeyRefused(fcfg) /\ WrongKey(fcfg, i)) =>
             /\ wk[i].opened =>
                   /\ wk[i].job.done
                   /\ wk[i].job.err # ""
                   /\ wk[i].job.rpos = envelopeHeaderSize
                   /\ wk[i].job.w = <<>>
                   /\ fs[TmpPath(i)].exists => fs[TmpPath(i)].content = <<>>
             /\ wk[i].pc = "returned" =>
                   /\ wk[i].err # ""
                   /\ ~fs[TmpPath(i)].exists
                   /\ fs[OutPath(i)] = old[OutPath(i)]

\* Decrypt with the 32-byte key of a deterministic envelope: the input was
\* opened and a temporary file created, decrypt refused the key after the
\* header, and processFile has returned with the temporary file removed.
C14_Witness ==
    /\ fcfg.Decrypt
    /\ fcfg.key.len = AesKeySize
    /\ ModeInUse(fcfg, 1) = modeDeterministic
    /\ wk[1].pc = "returned"
    /\ wk[1].opened
    /\ wk[1].TmpName = TmpPath(1)
    /\ wk[1].job.err = "decrypt: deterministic data requires 64-byte key"
    /\ ~fs[TmpPath(1)].exists

----------------------------------------------------------------------------
\* Properties of ProcessFiles (SpecSched)

\* The results about file i in a sequence of results.
ResultsOf(i, rs) == { k \in 1..Len(rs) : rs[k].Input = i }

Succeeded == { i \in DOMAIN gor : gor[i].pc \in {"post", "return", "done"}
                                  /\ gor[i].err = NoError }

RECURSIVE SumSizes(_)
SumSizes(S) ==
    IF S = {} THEN 0
    ELSE LET i == CHOOSE x \in S : TRUE
         IN gor[i].size + SumSizes(S \ {i})

\* C11: in every interleaving no file has more than one Result posted, and
\* when ProcessFiles returns each file has exactly one Result, which the
\* printer has consumed; processed + errored is the number of files,
\* processed the number of files that succeeded and totalSize the sum of
\* their output sizes.
C11_OneResultPerFile ==
    /\ \A i \in DOMAIN gor :
         Cardinality(ResultsOf(i, results.queue))
             + Cardinality(ResultsOf(i, printer.log)) <= 1
    /\ sched.pc = "returned"
         => /\ results.queue = <<>>
            /\ \A i \in DOMAIN gor :
                 Cardinality(ResultsOf(i, printer.log)) = 1
            /\ sched.ret.processed + sched.ret.errored = sched.cfg.Files
            /\ sched.ret.processed = Cardinality(Succeeded)
            /\ sched.ret.totalSize = SumSizes(Succeeded)

\* ProcessFiles has returned for several files run in parallel, one of them
\* failed, and the results were consumed out of the order of the list.
C11_Witness ==
    /\ sched.pc = "returned"
    /\ sched.cfg.Files > 1
    /\ sched.cfg.Parallel > 1
    /\ sched.ret.errored = 1
    /\ sched.ret.processed = sched.cfg.Files - 1
    /\ sched.ret.totalSize > 0
    /\ printer.log[1].Input # 1

\* C12: when ProcessFiles returns every file of the list has been
\* processed, whichever failed, and the error returned is non-nil exactly
\* when some file's result carries an error.
C12_FailureDoesNotStopOthers ==
    sched.pc = "returned"
        => /\ \A i \in Files(sched.cfg) : gor[i].pc = "done"
           /\ (sched.ret.err # NoError)
                  = (\E k \in 1..Len(printer.log) :
                         printer.log[k].Error # NoError)

\* The first file failed with the limit at one; the later files were
\* started after it and succeeded; ProcessFiles returned an error.
C12_Witness ==
    /\ sched.pc = "returned"
    /\ sched.cfg.Parallel = 1
    /\ sched.cfg.Files > 1
    /\ gor[1].err # NoError
    /\ \A i \in Files(sched.cfg) \ {1} : gor[i].pc = "done" /\ gor[i].err = NoError
    /\ sched.ret.err # NoError
    /\ sched.ret.processed = sched.cfg.Files - 1

\* The goroutines that hold a token of the group: started and not returned.
Running == { i \in DOMAIN gor : gor[i].pc \in {"run", "post", "return"} }

----------------------------------------------------------------------------
\* Properties of the output path (SpecPath)

\* C19: the output path is the input path with encrypt-ext appended on
\* encrypt, and on decrypt the input path with one trailing encrypt-ext
\* removed if present and decrypt-ext appended; the dry run prints the same
\* path.
C19_OutputPathIsStripAndAppend ==
    (call.fn = "outputPath" /\ ret # <<>>)
        => /\ ret.real = outputPathConcatenated(call.cfg, call.filename)
           /\ ret.dry = ret.real

\* C20: with the empty decrypt-ext, decrypting the file an encrypt run wrote
\* for the input path p writes to p.
C20_DecryptPathInvertsEncryptPath ==
    (/\ call.fn = "outputPath" /\ call.round = 2 /\ ret # <<>>
     /\ call.cfg.Suffixes.Decrypt = <<>>)
        => ret.real = call.input

\* The input lies in a directory and already ends in the encrypt-ext.
C20_Witness ==
    /\ call.fn = "outputPath" /\ call.round = 2 /\ ret # <<>>
    /\ call.cfg.Suffixes = [Encrypt |-> <<".", "e">>, Decrypt |-> <<>>]
    /\ HasSuffix(call.input, <<".", "e">>)
    /\ call.filename = call.input \o <<".", "e">>
    /\ ret.real = call.input

----------------------------------------------------------------------------
\* pathmatch: a glob pattern is rewritten as the text of a regular
\* expression, which regexp.Compile parses and MatchString runs.  Strings
\* are sequences of one-character strings.

MaxPattern == 4

MaxSubject == 2

Newline == "\n"

\* The character \a denotes in a regular expression.
Bell == "BEL"

\* regexp.QuoteMeta: the characters \.+*?()|[]{}^$ get a backslash.
QuoteMeta(c) ==
    IF c \in {"\\", ".", "+", "*", "?", "(", ")", "|", "[", "]", "{", "}",
              "^", "$"}
    THEN <<"\\", c>> ELSE <<c>>

\* findClosingBracket(pattern, pos): the index of the ] that closes the class
\* opened at pos, after an optional ! and an optional literal ].  Indexes
\* count from 1.
findClosingBracket(pattern, pos) ==
    LET afterBang == IF pos + 1 <= Len(pattern) /\ pattern[pos + 1] = "!"
                     THEN pos + 2 ELSE pos + 1
        from == IF afterBang <= Len(pattern) /\ pattern[afterBang] = "]"
                THEN afterBang + 1 ELSE afterBang
        found == { k \in from..Len(pattern) : pattern[k] = "]" }
    IN IF found = {} THEN [err |-> "unclosed character class", end |-> 0]
       ELSE [err |-> "", end |-> CHOOSE k \in found : \A m \in found : k <= m]

RECURSIVE toRegexpFrom(_, _, _)
\* The loop of toRegexp from position pos with buf written so far.
toRegexpFrom(pattern, pos, buf) ==
    IF pos > Len(pattern) THEN [err |-> "", re |-> buf \o <<"$">>]
    ELSE LET c == pattern[pos] IN
         CASE c = "*" -> toRegexpFrom(pattern, pos + 1, buf \o <<".", "*">>)
           [] c = "?" -> toRegexpFrom(pattern, pos + 1, buf \o <<".">>)
           [] c = "[" ->
                LET cb == findClosingBracket(pattern, pos)
                    class == SubSeq(pattern, pos, cb.end)
                    text == IF Len(class) > 2 /\ class[2] = "!"
                            THEN <<"[", "^">> \o Drop(class, 2) ELSE class
                IN IF cb.err # "" THEN [err |-> cb.err, re |-> <<>>]
                   ELSE toRegexpFrom(pattern, cb.end + 1, buf \o text)
           [] c = "\\" ->
                IF pos + 1 <= Len(pattern)
                THEN toRegexpFrom(pattern, pos + 2,
                                  buf \o QuoteMeta(pattern[pos + 1]))
                ELSE [err |-> "trailing backslash", re |-> <<>>]
           [] OTHER -> toRegexpFrom(pattern, pos + 1, buf \o QuoteMeta(c))

\* toRegexp with a trailing backslash dropped.
toRegexpTrailingDropped(pattern) ==
    LET r == toRegexpFrom(pattern, 1, <<"^">>)
    IN IF r.err = "trailing backslash"
       THEN toRegexpFrom(Take(pattern, Len(pattern) - 1), 1, <<"^">>)
       ELSE r

\* toRegexp
toRegexp(pattern) == toRegexpFrom(pattern, 1, <<"^">>)

\* regexp/syntax: the letters and digits, which a backslash does not make
\* literal.
IsAlnum(c) == c \in {"a", "b", "e"}

RECURSIVE parseClassFrom(_, _, _, _)
\* parser.parseClass after the [ and an optional ^: members up to the first
\* ] that is not the first member; a backslash takes the next character,
\* literally when it is punctuation, as the bell character for \a.
parseClassFrom(re, j, first, set) ==
    IF j > Len(re) THEN [err |-> "missing closing ]", set |-> {}, next |-> j]
    ELSE IF re[j] = "]" /\ ~first THEN [err |-> "", set |-> set, next |-> j + 1]
    ELSE IF re[j] = "\\"
    THEN IF j + 1 > Len(re)
         THEN [err |-> "trailing backslash at end of expression", set |-> {},
               next |-> j]
         ELSE IF ~IsAlnum(re[j + 1])
         THEN parseClassFrom(re, j + 2, FALSE, set \cup {re[j + 1]})
         ELSE IF re[j + 1] = "a"
         THEN parseClassFrom(re, j + 2, FALSE, set \cup {Bell})
         ELSE [err |-> "invalid escape sequence", set |-> {}, next |-> j]
    ELSE parseClassFrom(re, j + 1, FALSE, set \cup {re[j]})

RECURSIVE parseFrom(_, _, _)
\* syntax.Parse(re, syntax.Perl) on the expressions toRegexp writes: ^ and $
\* are the ends of the text, . is any character but \n and .* any run of
\* them, a bracket is a class, a backslash before punctuation a literal.
parseFrom(re, i, prog) ==
    IF i > Len(re) THEN [err |-> "", prog |-> prog]
    ELSE LET c == re[i] IN
         CASE c = "^" -> parseFrom(re, i + 1, Append(prog, [op |-> "begin"]))
           [] c = "$" -> parseFrom(re, i + 1, Append(prog, [op |-> "end"]))
           [] c = "." ->
                IF i + 1 <= Len(re) /\ re[i + 1] = "*"
                THEN parseFrom(re, i + 2, Append(prog, [op |-> "star"]))
                ELSE parseFrom(re, i + 1, Append(prog, [op |-> "any"]))
           [] c = "[" ->
                LET neg == i + 1 <= Len(re) /\ re[i + 1] = "^"
                    cl == parseClassFrom(re, IF neg THEN i + 2 ELSE i + 1,
                                         TRUE, {})
                IN IF cl.err # "" THEN [err |-> cl.err, prog |-> <<>>]
                   ELSE parseFrom(re, cl.next,
                                  Append(prog, [op |-> "class", neg |-> neg,
                                                set |-> cl.set]))
           [] c = "\\" ->
                IF i + 1 <= Len(re) /\ ~IsAlnum(re[i + 1])
                THEN parseFrom(re, i + 2,
                               Append(prog, [op |-> "lit", c |-> re[i + 1]]))
                ELSE [err |-> "invalid escape sequence", prog |-> <<>>]
           [] c \in {"*", "+", "?"} ->
                [err |-> "missing argument to repetition operator",
                 prog |-> <<>>]
           [] OTHER -> parseFrom(re, i + 1, Append(prog, [op |-> "lit", c |-> c]))

\* regexp.Compile
regexpCompile(re) == parseFrom(re, 1, <<>>)

\* The positions of path the program may be at after one more instruction,
\* from the positions in at.
Step(at, ins, path) ==
    CASE ins.op = "begin" -> at \cap {0}
      [] ins.op = "end" -> at \cap {Len(path)}
      [] ins.op = "any" ->
           { k + 1 : k \in { m \in at : m < Len(path) /\ path[m + 1] # Newline } }
      [] ins.op = "star" ->
           UNION { { k \in m..Len(path) : \A n \in (m + 1)..k : path[n] # Newline } :
                   m \in at }
      [] ins.op = "lit" ->
           { k + 1 : k \in { m \in at : m < Len(path) /\ path[m + 1] = ins.c } }
      [] ins.op = "class" ->
           { k + 1 : k \in { m \in at : m < Len(path)
                                       /\ (path[m + 1] \in ins.set) # ins.neg } }

RECURSIVE RunProg(_, _, _, _)
\* The instructions of prog from the n-th on.
RunProg(prog, n, at, path) ==
    IF n > Len(prog) THEN at
    ELSE UNION { RunProg(prog, n + 1, next, path) : next \in {Step(at, prog[n], path)} }

\* Regexp.MatchString: some match starts somewhere in path; the programs
\* here are anchored at both ends.
MatchString(prog, path) ==
    \E compiled \in {prog} : RunProg(compiled, 1, 0..Len(path), path) # {}

\* compile: toRegexp, then regexp.Compile.  The cache holds what compile
\* returned before for the same pattern.  (A variable bound in a set of one
\* element names a value that is computed once.)
compile(pattern) ==
    CHOOSE result \in
        { IF re.err # "" THEN [err |-> re.err, prog |-> <<>>]
          ELSE CHOOSE checked \in
                   { IF compiled.err # ""
                     THEN [err |-> "compiling pattern", prog |-> <<>>]
                     ELSE compiled : compiled \in {regexpCompile(re.re)} } : TRUE :
          re \in {toRegexp(pattern)} } : TRUE

\* Match
Match(pattern, path) ==
    LET re == compile(pattern)
    IN IF re.err # "" THEN [ok |-> FALSE, err |-> re.err]
       ELSE [ok |-> MatchString(re.prog, path), err |-> ""]

\* NewMatcher: the first pattern that does not compile is the error, and no
\* matcher is returned.
NewMatcher(patterns) ==
    CHOOSE matcher \in
        { IF \E k \in DOMAIN res : res[k].err # ""
          THEN [nil |-> TRUE,
                err |-> res[CHOOSE k \in DOMAIN res :
                               /\ res[k].err # ""
                               /\ \A m \in 1..(k - 1) : res[m].err = ""].err,
                patterns |-> <<>>]
          ELSE [nil |-> FALSE, err |-> "", patterns |-> res] :
          res \in {[k \in 1..Len(patterns) |-> compile(patterns[k])]} } : TRUE

\* Matcher.MatchAny
MatchAny(m, path) ==
    \E k \in 1..Len(m.patterns) : MatchString(m.patterns[k].prog, path)

----------------------------------------------------------------------------
\* Calls of Match on every pattern and path (SpecMatch), and calls of Match
\* and NewMatcher on patterns and lists of patterns (SpecMatcher).

MaxListPattern == 2

MaxList == 2

PatternChars == {"a", "*", "?", "[", "]", "!", "\\"}

SubjectChars == {"a", "/", "]", "!", Newline}

ListChars == {"a", "[", "]", "\\"}

Patterns == Strings(PatternChars, MaxPattern)

Subjects == Strings(SubjectChars, MaxSubject)

PatternLists ==
    UNION { [1..n -> Strings(ListChars, MaxListPattern)] : n \in 0..MaxList }

MatchInit ==
    /\ call \in [fn : {"Match"}, patterns : { <<p>> : p \in Patterns },
                 path : Subjects]
    /\ ret = <<>>
    /\ CodecIdle
    /\ FileIdle
    /\ SchedIdle

MatcherInit ==
    /\ call \in [fn : {"Match"}, patterns : { <<p>> : p \in Patterns },
                 path : {<<"a">>}]
             \cup [fn : {"NewMatcher"}, patterns : PatternLists,
                   path : {<<"a">>}]
    /\ ret = <<>>
    /\ CodecIdle
    /\ FileIdle
    /\ SchedIdle

\* Match(pattern, path)
CallMatch ==
    /\ call.fn = "Match"
    /\ ret = <<>>
    /\ LET got == Match(call.patterns[1], call.path)
       IN ret' = [ok |-> got.ok, err |-> got.err, nil |-> FALSE]
    /\ UNCHANGED call
    /\ UNCHANGED nonFnVars

\* NewMatcher(patterns), and MatchAny(path) on the matcher it returned.
CallNewMatcher ==
    /\ call.fn = "NewMatcher"
    /\ ret = <<>>
    /\ LET m == NewMatcher(call.patterns)
       IN ret' = [ok |-> ~m.nil /\ MatchAny(m, call.path), err |-> m.err,
                  nil |-> m.nil]
    /\ UNCHANGED call
    /\ UNCHANGED nonFnVars

MatchNext == CallMatch

SpecMatch == MatchInit /\ [][MatchNext]_vars

MatcherNext == CallMatch \/ CallNewMatcher

SpecMatcher == MatcherInit /\ [][MatcherNext]_vars

----------------------------------------------------------------------------
\* Properties of the path matcher (SpecMatch, SpecMatcher)

RECURSIVE BracketEnd(_, _, _, _)
\* The index of the ] that ends the bracket expression whose members start
\* at k, or 0: a ] that is the first member is a member; with escapes, a
\* backslash takes the next character as a member.
BracketEnd(p, k, first, escapes) ==
    IF k > Len(p) THEN 0
    ELSE IF p[k] = "]" /\ ~first THEN k
    ELSE IF escapes /\ p[k] = "\\"
    THEN IF k + 1 > Len(p) THEN 0 ELSE BracketEnd(p, k + 2, FALSE, escapes)
    ELSE BracketEnd(p, k + 1, FALSE, escapes)

\* Where the members of the bracket expression at the head of p start.
BracketStart(p) == IF Len(p) >= 2 /\ p[2] = "!" THEN 3 ELSE 2

RECURSIVE Members(_, _, _)
\* The members of a bracket expression from k up to its closing ] at end.
Members(p, k, end) ==
    IF k >= end THEN {}
    ELSE IF p[k] = "\\" /\ k + 1 < end
    THEN {p[k + 1]} \cup Members(p, k + 2, end)
    ELSE {p[k]} \cup Members(p, k + 1, end)

RECURSIVE MalformedWith(_, _)
\* p has a bracket expression that is never closed or ends in a backslash
\* that escapes nothing.
MalformedWith(p, escapes) ==
    IF p = <<>> THEN FALSE
    ELSE IF p[1] = "\\" THEN Len(p) = 1 \/ MalformedWith(Drop(p, 2), escapes)
    ELSE IF p[1] = "["
    THEN LET end == BracketEnd(p, BracketStart(p), TRUE, escapes)
         IN end = 0 \/ MalformedWith(Drop(p, end), escapes)
    ELSE MalformedWith(Tail(p), escapes)

\* Malformed whether or not a backslash escapes inside a bracket expression.
Malformed(p) == MalformedWith(p, FALSE) \/ MalformedWith(p, TRUE)

RECURSIVE Fnmatch(_, _)
\* fnmatch(p, s, 0) for a pattern that is not malformed.
Fnmatch(p, s) ==
    IF p = <<>> THEN s = <<>>
    ELSE IF p[1] = "*" THEN \E k \in 0..Len(s) : Fnmatch(Tail(p), Drop(s, k))
    ELSE IF p[1] = "?" THEN s # <<>> /\ Fnmatch(Tail(p), Tail(s))
    ELSE IF p[1] = "\\"
    THEN Len(p) >= 2 /\ s # <<>> /\ s[1] = p[2] /\ Fnmatch(Drop(p, 2), Tail(s))
    ELSE IF p[1] = "["
    THEN LET from == BracketStart(p)
             end == BracketEnd(p, from, TRUE, TRUE)
         IN /\ end # 0
            /\ s # <<>>
            /\ (s[1] \in Members(p, from, end)) # (from = 3)
            /\ Fnmatch(Drop(p, end), Tail(s))
    ELSE s # <<>> /\ s[1] = p[1] /\ Fnmatch(Tail(p), Tail(s))

\* C17: for every pattern that is not malformed and every path, Match
\* returns no error and says what fnmatch without FNM_PATHNAME says.
C17_MatchAgreesWithFnmatch ==
    (call.fn = "Match" /\ ret # <<>> /\ ~Malformed(call.patterns[1]))
        => /\ ret.err = ""
           /\ ret.ok = Fnmatch(call.patterns[1], call.path)

\* C18: Match and NewMatcher return an error when a pattern handed to them
\* has an unclosed character class or a trailing backslash, and NewMatcher
\* returns no matcher then, whatever the other patterns of the list are.
C18_MalformedPatternIsError ==
    (ret # <<>> /\ \E k \in 1..Len(call.patterns) : Malformed(call.patterns[k]))
        => /\ ret.err # ""
           /\ ~ret.ok
           /\ call.fn = "NewMatcher" => ret.nil

\* NewMatcher has refused a list of two patterns whose first matches the
\* path and whose second ends in a backslash.
C18_Witness ==
    /\ call.fn = "NewMatcher"
    /\ ret # <<>>
    /\ Len(call.patterns) = 2
    /\ Match(call.patterns[1], call.path).ok
    /\ call.patterns[2] = <<"a", "\\">>
    /\ ret.nil
    /\ ret.err = "trailing backslash"

----------------------------------------------------------------------------
\* filter.Resolve over a working directory that holds the file a and the
\* directory d with the files d/a and d/e (SpecResolve).

MaxArgs == 2

MaxFilter == 1

\* The files of the working directory, in the order filepath.WalkDir visits
\* them.
TreeFiles == << <<"a">>, <<"d", "/", "a">>, <<"d", "/", "e">> >>

TreeDirs == { <<".">>, <<"d">> }

Range(seq) == { seq[k] : k \in 1..Len(seq) }

\* os.Stat
Stat(path) ==
    IF path \in TreeDirs THEN [err |-> "", IsDir |-> TRUE]
    ELSE IF path \in Range(TreeFiles) THEN [err |-> "", IsDir |-> FALSE]
    ELSE [err |-> "no such file or directory", IsDir |-> FALSE]

RECURSIVE WalkFrom(_, _)
\* The files under root from the k-th file of the working directory on.
WalkFrom(root, k) ==
    IF k > Len(TreeFiles) THEN <<>>
    ELSE IF root = <<".">> \/ HasPrefix(TreeFiles[k], root \o <<"/">>)
    THEN <<TreeFiles[k]>> \o WalkFrom(root, k + 1)
    ELSE WalkFrom(root, k + 1)

\* The files filepath.WalkDir(root, fn) hands to fn, named relative to the
\* working directory.
WalkFiles(root) == WalkFrom(root, 1)

\* normalizePatterns
normalizePatterns(patterns) ==
    [k \in 1..Len(patterns) |-> TrimPrefix(patterns[k], <<".", "/">>)]

\* NewFilter
NewFilter(includes, excludes) ==
    CHOOSE flt \in
        { IF inc.err # "" THEN [err |-> "compiling include patterns"]
          ELSE IF exc.err # "" THEN [err |-> "compiling exclude patterns"]
          ELSE [err |-> "", includes |-> inc, excludes |-> exc] :
          inc \in {NewMatcher(includes)}, exc \in {NewMatcher(excludes)} } : TRUE

\* The filter that never excludes.
matchIgnoresExcludes(f, path, hasIncludes) ==
    ~hasIncludes \/ MatchAny(f.includes, path)

\* Filter.match
match(f, path, hasIncludes) ==
    LET included == ~hasIncludes \/ MatchAny(f.includes, path)
        excluded == MatchAny(f.excludes, path)
    IN included /\ ~excluded

RECURSIVE walkFn(_, _, _)
\* The function walkDir hands to filepath.WalkDir, called on each of the
\* files walked: a file is kept when the filter matches its cleaned name.
walkFn(walked, flt, hasIncludes) ==
    IF walked = <<>> THEN <<>>
    ELSE IF match(flt, Clean(Head(walked)), hasIncludes)
    THEN <<Head(walked)>> \o walkFn(Tail(walked), flt, hasIncludes)
    ELSE walkFn(Tail(walked), flt, hasIncludes)

\* walkDir: every file under root is counted.
walkDir(root, flt, hasIncludes) ==
    [files |-> walkFn(WalkFiles(root), flt, hasIncludes),
     total |-> Len(WalkFiles(root))]

\* validatePath without the check of the cleaned form.
validatePathAbsOnly(path) ==
    IF IsAbs(path) THEN "absolute paths are not allowed" ELSE ""

\* validatePath
validatePath(path) ==
    IF IsAbs(path) THEN "absolute paths are not allowed"
    ELSE IF HasPrefix(Clean(path), <<".", ".">>)
    THEN "paths must be within the current working directory"
    ELSE ""

\* files with all of walked added, seen before or not.
AppendSeenToo(files, walked) == files \o walked

RECURSIVE AppendUnseen(_, _)
\* files with those of walked added that it does not hold yet.
AppendUnseen(files, walked) ==
    IF walked = <<>> THEN files
    ELSE AppendUnseen(IF Head(walked) \in Range(files) THEN files
                      ELSE Append(files, Head(walked)),
                      Tail(walked))

\* What Resolve returns, with the names it has handed to os.Stat.
Resolved(files, scanned, err, statted) ==
    [nil |-> err # "", files |-> IF err # "" THEN <<>> ELSE files,
     scanned |-> scanned, err |-> err, statted |-> statted]

RECURSIVE resolveFrom(_, _, _, _, _, _, _)
\* The second loop of Resolve from the k-th argument on.
resolveFrom(args, k, flt, hasIncludes, files, scanned, statted) ==
    IF k > Len(args)
    THEN IF files = <<>>
         THEN Resolved(<<>>, scanned, "no files matched the provided patterns",
                       statted)
         ELSE Resolved(files, scanned, "", statted)
    ELSE LET arg == Clean(args[k])
             info == Stat(arg)
             walked == walkDir(arg, flt, hasIncludes)
         IN IF info.err # ""
            THEN Resolved(<<>>, 0, "stat", Append(statted, arg))
            ELSE IF ~info.IsDir
            THEN resolveFrom(args, k + 1, flt, hasIncludes,
                             AppendUnseen(files, <<arg>>), scanned + 1,
                             Append(statted, arg))
            ELSE resolveFrom(args, k + 1, flt, hasIncludes,
                             AppendUnseen(files, walked.files),
                             scanned + walked.total, Append(statted, arg))

\* Resolve
Resolve(args, includes, excludes, hasIncludes) ==
    IF \E k \in 1..Len(args) : validatePath(args[k]) # ""
    THEN Resolved(<<>>, 0,
                  validatePath(args[CHOOSE k \in 1..Len(args) :
                                       /\ validatePath(args[k]) # ""
                                       /\ \A m \in 1..(k - 1) :
                                            validatePath(args[m]) = ""]),
                  <<>>)
    ELSE CHOOSE result \in
             { IF flt.err # "" THEN Resolved(<<>>, 0, flt.err, <<>>)
               ELSE resolveFrom(args, 1, flt, hasIncludes, <<>>, 0, <<>>) :
               flt \in {NewFilter(normalizePatterns(includes),
                                  normalizePatterns(excludes))} } : TRUE

\* The positional arguments: the directory itself, a directory, a file named
\* the long way round, a name nothing has, a path that leaves the directory
\* and an absolute path.
ArgNames ==
    { <<".">>, <<"d">>, <<".", "/", "d", "/", "a">>, <<"x">>,
      <<".", ".", "/", "a">>, <<"/", "a">> }

FilterPatterns ==
    { <<"*", "a">>, <<".", "/", "d", "/", "*">>, <<"[">> }

ResolveInit ==
    /\ call \in [fn : {"Resolve"},
                 args : UNION { [1..n -> ArgNames] : n \in 0..MaxArgs },
                 includes : UNION { [1..n -> FilterPatterns] : n \in 0..MaxFilter },
                 excludes : UNION { [1..n -> FilterPatterns] : n \in 0..MaxFilter },
                 hasIncludes : BOOLEAN]
    /\ ret = <<>>
    /\ CodecIdle
    /\ FileIdle
    /\ SchedIdle

\* Resolve(args, includes, excludes, hasIncludes)
CallResolve ==
    /\ call.fn = "Resolve"
    /\ ret = <<>>
    /\ ret' = Resolve(call.args, call.includes, call.excludes, call.hasIncludes)
    /\ UNCHANGED call
    /\ UNCHANGED nonFnVars

ResolveNext == CallResolve

SpecResolve == ResolveInit /\ [][ResolveNext]_vars

----------------------------------------------------------------------------
\* Properties of Resolve (SpecResolve)

\* The argument names a file: the file is taken under its cleaned name.
ExplicitFile(path) ==
    \E k \in 1..Len(call.args) :
        Clean(call.args[k]) = path /\ path \in Range(TreeFiles)

\* The file was found by walking an argument that names a directory.
FoundByWalk(path) ==
    \E k \in 1..Len(call.args) :
        /\ Clean(call.args[k]) \in TreeDirs
        /\ path \in Range(WalkFiles(Clean(call.args[k])))

\* Some pattern of the list, its leading ./ stripped, matches the path.
SomeMatches(patterns, path) ==
    \E k \in 1..Len(patterns) :
        Match(TrimPrefix(patterns[k], <<".", "/">>), path).ok

\* The path is one Resolve is to select.
Selected(path) ==
    \/ ExplicitFile(path)
    \/ /\ FoundByWalk(path)
       /\ ~call.hasIncludes \/ SomeMatches(call.includes, path)
       /\ ~SomeMatches(call.excludes, path)

MustFail ==
    \/ \E k \in 1..Len(call.args) :
          \/ validatePath(call.args[k]) # ""
          \/ Stat(Clean(call.args[k])).err # ""
    \/ \E k \in 1..Len(call.includes) :
          Match(TrimPrefix(call.includes[k], <<".", "/">>), <<>>).err # ""
    \/ \E k \in 1..Len(call.excludes) :
          Match(TrimPrefix(call.excludes[k], <<".", "/">>), <<>>).err # ""
    \/ \A path \in Range(TreeFiles) : ~Selected(path)

C16_EscapingArgumentRejectedFirst ==
    (call.fn = "Resolve" /\ ret # <<>>
       /\ \E k \in 1..Len(call.args) :
            IsAbs(call.args[k]) \/ HasPrefix(Clean(call.args[k]), <<".", ".">>))
        => /\ ret.nil
           /\ ret.err # ""
           /\ ret.statted = <<>>

\* Resolve refused the arguments d and ../a: d comes first and was not
\* looked at.
C16_Witness ==
    /\ call.fn = "Resolve"
    /\ ret # <<>>
    /\ call.args = << <<"d">>, <<".", ".", "/", "a">> >>
    /\ ret.nil
    /\ ret.err = "paths must be within the current working directory"
    /\ ret.statted = <<>>

----------------------------------------------------------------------------
\* Properties of the deterministic framing (Spec)

\* Bytes (k-1)*ChunkSize+1 .. k*ChunkSize of r, as far as r goes.
ChunkOf(r, k) == SubSeq(r, (k - 1) * ChunkSize + 1, Min(k * ChunkSize, Len(r)))

CeilDiv(n, d) == (n + d - 1) \div d

\* The plaintext a frame carries under the key of the encrypting processor.
Carried(frame) ==
    DecryptDeterministically(NewProcessor(encCfg).p.daead,
                             Drop(frame, lengthPrefixSize), <<>>)

\* C21: for an input of n bytes, read in any sizes, the body of the
\* deterministic envelope is exactly ceil(n / ChunkSize) frames; frame k
\* carries bytes (k-1)*ChunkSize+1 .. k*ChunkSize of the input, so every
\* frame but the last carries ChunkSize bytes and the last one between 1 and
\* ChunkSize; an empty input has no frame.
C21_FramesAreTheChunks ==
    (pc = "stored" /\ encCfg.Deterministic)
        => \E fr \in {Frames(Drop(envelope, envelopeHeaderSize))} :
             /\ Flatten(fr) = Drop(envelope, envelopeHeaderSize)
             /\ Len(fr) = CeilDiv(Len(plain), ChunkSize)
             /\ \A k \in 1..Len(fr) :
                  /\ Carried(fr[k]) = [ok |-> TRUE, pt |-> ChunkOf(plain, k)]
                  /\ Len(ChunkOf(plain, k)) \in 1..ChunkSize
                  /\ k < Len(fr) => Len(ChunkOf(plain, k)) = ChunkSize

\* An input that ends inside its second chunk, read in one piece larger than
\* a chunk.
C21_Witness ==
    /\ pc = "stored" /\ encCfg.Deterministic
    /\ Len(plain) > ChunkSize /\ Len(plain) % ChunkSize # 0
    /\ job.op = "encDet" /\ job.rpos = Len(plain)
    /\ Len(Frames(Drop(envelope, envelopeHeaderSize))) = 2
    /\ Len(Carried(Frames(Drop(envelope, envelopeHeaderSize))[2]).pt) = 1

\* The offset in body (counted from off) of the first frame whose declared
\* length exceeds a chunk and its AES-SIV overhead; -1 if there is none
\* among the frames that are whole.
RECURSIVE FirstOversized(_, _)
FirstOversized(body, off) ==
    IF Len(body) < lengthPrefixSize THEN -1
    ELSE IF Uint32(Take(body, lengthPrefixSize)) > ChunkSize + SivSize
    THEN off
    ELSE IF lengthPrefixSize + Uint32(Take(body, lengthPrefixSize)) > Len(body)
    THEN -1
    ELSE FirstOversized(
             Drop(body, lengthPrefixSize + Uint32(Take(body, lengthPrefixSize))),
             off + lengthPrefixSize + Uint32(Take(body, lengthPrefixSize)))

OversizedAt == FirstOversized(Drop(envelope, envelopeHeaderSize), envelopeHeaderSize)

\* C22: deterministic decrypt of an envelope holding a frame whose declared
\* length exceeds ChunkSize + SivSize fails, and has read nothing past that
\* frame's length prefix.
C22_OversizedFrameRejectedUnread ==
    (pc = "done" /\ job.op = "decDet" /\ OversizedAt >= 0)
        => (job.err # "" /\ job.rpos <= OversizedAt + lengthPrefixSize)

----------------------------------------------------------------------------
\* Properties of processFile under a failing closing flush (SpecFile)

\* The deterministic encrypt of file i has ended with plaintext that was
\* read still in the streaming writer's buffer: the flush of Close failed,
\* or the loop returned an error before.
TailNotWritten(i) ==
    /\ wk[i].job.op = "encDet"
    /\ wk[i].job.done
    /\ wk[i].job.buffer # <<>>

\* C29: when the tail chunk was not written, the temporary file is never
\* renamed to the output path, and processFile returns an error.
C29_TailWriteFailureReported ==
    \A i \in FileIds :
        TailNotWritten(i)
            => /\ ~wk[i].renamed
               /\ wk[i].pc = "returned" => wk[i].err # ""

----------------------------------------------------------------------------
\* Properties of the removal of sources (SpecSched)

\* The files os.Remove was called on, with or without success.
RemoveCalled == printer.deleted \cup printer.removeErrors

\* The results consumed so far that carry no error.
Successes == { k \in 1..Len(printer.log) : printer.log[k].Error = NoError }

\* C24: os.Remove is called on a source only when --delete is set, the
\* file's processFile returned no error, and therefore after its rename; a
\* removal that failed is reported, and the counters and the error
\* ProcessFiles returns are those of the results alone.
C24_RemovedOnlyAfterSuccess ==
    /\ \A i \in RemoveCalled :
          /\ sched.cfg.Delete
          /\ gor[i].pc \in {"return", "done"}
          /\ gor[i].err = NoError
          /\ gor[i].renamed
    /\ printer.processed = Cardinality(Successes)
    /\ printer.errored = Len(printer.log) - Cardinality(Successes)
    /\ sched.pc = "returned"
          => /\ sched.ret.processed = printer.processed
             /\ sched.ret.errored = printer.errored
             /\ (sched.ret.err = NoError)
                    = (\A i \in Files(sched.cfg) : gor[i].err = NoError)

\* Every file succeeded, the removal of one source failed and was reported,
\* the other source was removed, and ProcessFiles returned no error with
\* every file counted as processed.
C24_Witness ==
    /\ sched.pc = "returned"
    /\ sched.cfg.Delete
    /\ sched.cfg.Files > 1
    /\ printer.removeErrors # {}
    /\ printer.deleted # {}
    /\ sched.ret.err = NoError
    /\ sched.ret.errored = 0
    /\ sched.ret.processed = sched.cfg.Files

----------------------------------------------------------------------------
\* ProcessFiles with --delete, seen by the files it leaves (SpecDelete):
\* processFile is one step that either fails, leaving everything as it was,
\* or puts the output at outPath; the printer then removes result.Input.

DeleteNames == {<<"a">>, <<"a", ".", "e">>, <<"b">>}

DeleteExts == {<<>>, <<".", "e">>}

DeleteCfgs ==
    [Decrypt : BOOLEAN, Delete : BOOLEAN,
     Suffixes : [Encrypt : DeleteExts, Decrypt : DeleteExts]]

\* cfg.Files: one or two different files.
DeleteFiles ==
    { files \in [FileIds -> DeleteNames] : files[1] # files[2] }

DeletePaths(cfg, files) ==
    UNION { {files[i], outputPath(cfg, files[i])} : i \in FileIds }

DeleteInit ==
    /\ fcfg \in DeleteCfgs
    /\ \E files \in DeleteFiles :
         /\ wk = [i \in FileIds |->
                    [pc |-> "run", file |-> files[i],
                     outPath |-> outputPath(fcfg, files[i]), err |-> "",
                     removed |-> FALSE]]
         /\ fs = [path \in DeletePaths(fcfg, files) |->
                    IF \E i \in FileIds : path = files[i]
                    THEN NewFile(<<"source">>, 420, 1)
                    ELSE NoFile]
    /\ old = fs
    /\ origin = NoTamper
    /\ CodecIdle
    /\ SchedIdle
    /\ FnIdle

\* The goroutine of file i: outPath := p.outputPath(file), processFile, and
\* the Result posted.
WorkerProcessFile(i) ==
    /\ wk[i].pc = "run"
    /\ \E ok \in BOOLEAN :
         IF ok /\ fs[wk[i].file].exists
         THEN /\ fs' = [fs EXCEPT ![wk[i].outPath] =
                                     NewFile(<<"output">>, ownerReadWrite, 2)]
              /\ wk' = [wk EXCEPT ![i].pc = "posted"]
         ELSE /\ wk' = [wk EXCEPT ![i].pc = "posted",
                                  ![i].err = "processing failed"]
              /\ UNCHANGED fs
    /\ UNCHANGED <<fcfg, old, origin>>
    /\ UNCHANGED nonFileVars

\* The printer's iteration for the result of file i: os.Remove(result.Input)
\* when --delete is set and the result carries no error.
PrinterRemove(i) ==
    /\ wk[i].pc = "posted"
    /\ \E removeOk \in BOOLEAN :
         IF fcfg.Delete /\ wk[i].err = "" /\ removeOk
         THEN /\ fs' = [fs EXCEPT ![wk[i].file] = NoFile]
              /\ wk' = [wk EXCEPT ![i].pc = "consumed", ![i].removed = TRUE]
         ELSE /\ wk' = [wk EXCEPT ![i].pc = "consumed"]
              /\ UNCHANGED fs
    /\ UNCHANGED <<fcfg, old, origin>>
    /\ UNCHANGED nonFileVars

DeleteNext ==
    \E i \in FileIds :
        \/ WorkerProcessFile(i)
        \/ PrinterRemove(i)

SpecDelete == DeleteInit /\ [][DeleteNext]_vars

\* C30: with --delete, a file whose output path is its input path and whose
\* result carried no error still has its output at that path once its
\* result was consumed.
C30_OutputSurvivesDelete ==
    \A i \in FileIds :
        (/\ fcfg.Delete
         /\ wk[i].pc = "consumed"
         /\ wk[i].err = ""
         /\ wk[i].outPath = wk[i].file)
            => fs[wk[i].outPath].exists

----------------------------------------------------------------------------
\* Properties of the choice of codec on decrypt (SpecDecrypt)

\* What decrypt makes of file i, as the run found it, under the run's
\* configuration with the --deterministic setting reversed.
OtherSetting(i) ==
    runJob(decryptBegin(
               NewProcessor([fcfg EXCEPT !.Deterministic = ~@]).p,
               old[InputPath(fcfg, i)].content))

\* The codec of file i ended by itself: no read or write failed.
CodecEnded(i) ==
    /\ wk[i].job.done
    /\ wk[i].job.err # "input/output error"

\* C25: on decrypt the codec, the bytes written, the executable flag and the
\* error are those the stored header and the key give, the same under
\* either --deterministic setting; in one run a file of each mode meets the
\* codec of its own header, and the one whose mode the key fits is decrypted
\* to its plaintext.
C25_DecryptFollowsHeader ==
    \A i \in FileIds :
        (fcfg.Decrypt /\ NewProcessor(fcfg).ok /\ CodecEnded(i))
            => /\ wk[i].job.err = OtherSetting(i).err
               /\ wk[i].job.w = OtherSetting(i).w
               /\ wk[i].job.exec = OtherSetting(i).exec
               /\ wk[i].job.op = OtherSetting(i).op
               /\ (ModeInUse(fcfg, i) # 0 /\ ~WrongKey(fcfg, i))
                     => wk[i].job.op = IF ModeInUse(fcfg, i) = modeDeterministic
                                       THEN "decDet" ELSE "decRand"
               /\ (i = 1 /\ origin.kind = "valid" /\ ~WrongKey(fcfg, i))
                     => wk[i].job.err = "" /\ wk[i].job.w = origin.plain

\* A run with --deterministic set and the 32-byte key: the first file, a
\* randomized envelope, was decrypted to its plaintext and renamed.
C25_Witness ==
    /\ fcfg.Decrypt
    /\ fcfg.Deterministic
    /\ fcfg.key = Key32
    /\ origin.kind = "valid"
    /\ ~origin.det
    /\ origin.plain = FilePlain
    /\ wk[1].renamed
    /\ wk[1].job.op = "decRand"
    /\ fs[OutPath(1)].content = FilePlain

----------------------------------------------------------------------------
\* Properties of the order of Resolve's list (SpecResolve)

\* The path passes the filter of the call.
PassesFilter(path) ==
    /\ ~call.hasIncludes \/ SomeMatches(call.includes, path)
    /\ ~SomeMatches(call.excludes, path)

\* The moments at which Resolve comes across the path: as the k-th argument
\* itself, or as the n-th file of the walk of the k-th argument.
Encounters(path) ==
    { k * (Len(TreeFiles) + 1) :
        k \in { m \in 1..Len(call.args) :
                  Clean(call.args[m]) = path /\ path \in Range(TreeFiles) } }
    \cup
    { kn[1] * (Len(TreeFiles) + 1) + kn[2] :
        kn \in { x \in (1..Len(call.args)) \X (1..Len(TreeFiles)) :
                   /\ Clean(call.args[x[1]]) \in TreeDirs
                   /\ x[2] <= Len(WalkFiles(Clean(call.args[x[1]])))
                   /\ WalkFiles(Clean(call.args[x[1]]))[x[2]] = path
                   /\ PassesFilter(path) } }

FirstEncounter(path) ==
    CHOOSE e \in Encounters(path) : \A o \in Encounters(path) : e <= o

\* C28: the list Resolve returns holds no path twice, every path of it was
\* come across, and the paths stand in the order in which they were first
\* come across: by argument, then by the walk of the argument.
C28_ResolveListOrderedNoDuplicates ==
    (call.fn = "Resolve" /\ ret # <<>> /\ ret.err = "")
        => /\ \A p \in 1..Len(ret.files) : Encounters(ret.files[p]) # {}
           /\ \A p, q \in 1..Len(ret.files) :
                p < q => /\ ret.files[p] # ret.files[q]
                         /\ FirstEncounter(ret.files[p])
                              < FirstEncounter(ret.files[q])

\* d/a was named as a file and then met again in the walk of the working
\* directory: it stands once, first, before the file a the walk met earlier.
C28_Witness ==
    /\ call.fn = "Resolve"
    /\ ret # <<>>
    /\ call.args = << <<".", "/", "d", "/", "a">>, <<".">> >>
    /\ call.includes = <<>> /\ call.excludes = <<>> /\ ~call.hasIncludes
    /\ ret.files = << <<"d", "/", "a">>, <<"a">>, <<"d", "/", "e">> >>

----------------------------------------------------------------------------
\* logic.Run: resolveFiles, then dryRun or the processor (SpecRun).  The
\* working directory is the tree of SpecResolve; ProcessFiles is seen by the
\* files it leaves.

\* filter.LoadPatterns over the patterns files of the working directory: p
\* holds ["d/*"], n holds [], and any other name cannot be read.
LoadPatterns(path) ==
    CASE path = <<"p">> ->
             [err |-> "", patterns |-> << <<"d", "/", "*">> >>]
      [] path = <<"n">> -> [err |-> "", patterns |-> <<>>]
      [] OTHER -> [err |-> "reading patterns file", patterns |-> <<>>]

\* if cfg.IncludeFrom != "" { patterns, err := filter.LoadPatterns(...) }
loadIfNamed(path) ==
    IF path = <<>> THEN [err |-> "", patterns |-> <<>>] ELSE LoadPatterns(path)

\* hasIncludes := len(cfg.Include) > 0 || cfg.IncludeFrom != ""
includeRequested(cfg) == Len(cfg.Include) > 0 \/ cfg.IncludeFrom # <<>>

\* if cfg.Decrypt && !hasIncludes
addsSuffixPattern(cfg) == cfg.Decrypt /\ ~includeRequested(cfg)

\* What resolveFiles returns, with the list it leaves in cfg.Files and the
\* filter it has handed to filter.Resolve.
resolved(err, scanned, files, includes, hasIncludes) ==
    [err |-> err, scanned |-> scanned, Files |-> files,
     includes |-> includes, hasIncludes |-> hasIncludes]

\* resolveFiles from the suffix pattern on.
resolveWith(cfg, includes, excludes, hasIncludes) ==
    CHOOSE out \in
        { IF r.err # ""
          THEN resolved("filtering files", r.scanned, cfg.Files, includes,
                        hasIncludes)
          ELSE resolved("", r.scanned, r.files, includes, hasIncludes) :
          r \in {Resolve(cfg.Files, includes, excludes, hasIncludes)} } : TRUE

\* resolveFiles
resolveFiles(cfg) ==
    CHOOSE out \in
        { IF inc.err # ""
          THEN resolved("loading include patterns", 0, cfg.Files, <<>>, FALSE)
          ELSE IF exc.err # ""
          THEN resolved("loading exclude patterns", 0, cfg.Files, <<>>, FALSE)
          ELSE IF addsSuffixPattern(cfg)
          THEN resolveWith(cfg,
                           Append(cfg.Include \o inc.patterns,
                                  <<"*">> \o cfg.Suffixes.Encrypt),
                           cfg.Exclude \o exc.patterns, TRUE)
          ELSE resolveWith(cfg, cfg.Include \o inc.patterns,
                           cfg.Exclude \o exc.patterns, includeRequested(cfg)) :
          inc \in {loadIfNamed(cfg.IncludeFrom)},
          exc \in {loadIfNamed(cfg.ExcludeFrom)} } : TRUE

\* The filters of a run: none, --include, --include-from (a file with a
\* pattern, an empty one, an unreadable one), --exclude, --exclude-from.
RunFilters ==
    { [Include |-> <<>>, IncludeFrom |-> <<>>, Exclude |-> <<>>,
       ExcludeFrom |-> <<>>],
      [Include |-> << <<"*", "a">> >>, IncludeFrom |-> <<>>, Exclude |-> <<>>,
       ExcludeFrom |-> <<>>],
      [Include |-> <<>>, IncludeFrom |-> <<"p">>, Exclude |-> <<>>,
       ExcludeFrom |-> <<>>],
      [Include |-> <<>>, IncludeFrom |-> <<"n">>, Exclude |-> <<>>,
       ExcludeFrom |-> <<>>],
      [Include |-> <<>>, IncludeFrom |-> <<"x">>, Exclude |-> <<>>,
       ExcludeFrom |-> <<>>],
      [Include |-> <<>>, IncludeFrom |-> <<>>, Exclude |-> << <<"*", "a">> >>,
       ExcludeFrom |-> <<>>],
      [Include |-> <<>>, IncludeFrom |-> <<>>, Exclude |-> <<>>,
       ExcludeFrom |-> <<"p">>],
      [Include |-> <<>>, IncludeFrom |-> <<>>, Exclude |-> <<>>,
       ExcludeFrom |-> <<"x">>] }

\* The positional arguments of a run.
RunArgs ==
    { << <<".">> >>, << <<"d">> >>, << <<".", "/", "d", "/", "a">>, <<".">> >>,
      << <<"d">>, <<"a">> >>, << <<"x">> >> }

\* The encrypt suffixes of a run; the decrypt suffix is empty.
RunSuffixes ==
    { [Encrypt |-> ext, Decrypt |-> <<>>] : ext \in {<<"e">>, <<"?">>} }

RunConfigs ==
    { [Decrypt |-> o.Decrypt, Dry |-> o.Dry, Delete |-> o.Delete,
       Stats |-> o.Stats, PreserveTimestamps |-> o.PreserveTimestamps,
       Include |-> o.filter.Include, IncludeFrom |-> o.filter.IncludeFrom,
       Exclude |-> o.filter.Exclude, ExcludeFrom |-> o.filter.ExcludeFrom,
       Files |-> o.Files, Suffixes |-> o.Suffixes] :
      o \in [Decrypt : BOOLEAN, Dry : BOOLEAN, Delete : BOOLEAN,
             Stats : BOOLEAN, PreserveTimestamps : BOOLEAN,
             filter : RunFilters, Files : RunArgs, Suffixes : RunSuffixes] }

\* The paths a run may touch: the files of the tree and their output paths.
RunPaths(cfg) ==
    Range(TreeFiles) \cup { outputPath(cfg, TreeFiles[k]) : k \in 1..Len(TreeFiles) }

NoResolved == resolved("", 0, <<>>, <<>>, FALSE)

RunInit ==
    /\ fcfg \in RunConfigs
    /\ fs = [path \in RunPaths(fcfg) |->
               IF path \in Range(TreeFiles)
               THEN NewFile(<<"source">>, 420, 1) ELSE NoFile]
    /\ old = fs
    /\ wk = [pc |-> "resolve", args |-> fcfg.Files, rf |-> NoResolved,
             err |-> "", ops |-> {}, printed |-> <<>>, totalSize |-> 0]
    /\ origin = NoTamper
    /\ CodecIdle
    /\ SchedIdle
    /\ FnIdle

\* scanned, err := resolveFiles(cfg): on an error Run returns it.
RunResolveFiles ==
    /\ wk.pc = "resolve"
    /\ \E rf \in {resolveFiles(fcfg)} :
         /\ fcfg' = [fcfg EXCEPT !.Files = rf.Files]
         /\ wk' = [wk EXCEPT !.rf = rf,
                             !.pc = IF rf.err # "" THEN "returned" ELSE "resolved",
                             !.err = IF rf.err # "" THEN "resolving files" ELSE ""]
    /\ UNCHANGED <<fs, old, origin>>
    /\ UNCHANGED nonFileVars

\* Run with the --dry-run setting ignored.
dryRequestedNever(cfg) == FALSE

\* if cfg.Dry
dryRequested(cfg) == cfg.Dry

RECURSIVE SumSizesOf(_, _)
\* totalSize += info.Size() for the files os.Stat finds.
SumSizesOf(files, f) ==
    IF files = <<>> THEN 0
    ELSE (IF f[Head(files)].exists THEN Len(f[Head(files)].content) ELSE 0)
         + SumSizesOf(Tail(files), f)

\* dryRun: a line per file with its output path, and with --stats an
\* os.Stat of every file.
DryRun ==
    /\ wk.pc = "resolved"
    /\ dryRequested(fcfg)
    /\ wk' = [wk EXCEPT
                !.pc = "returned",
                !.printed = [k \in 1..Len(fcfg.Files) |->
                               [Input |-> fcfg.Files[k],
                                Output |-> dryRunOutputPath(fcfg.Files[k], fcfg)]],
                !.ops = IF fcfg.Stats
                        THEN { [op |-> "stat", path |-> fcfg.Files[k]] :
                               k \in 1..Len(fcfg.Files) }
                        ELSE {},
                !.totalSize = IF fcfg.Stats THEN SumSizesOf(fcfg.Files, fs)
                              ELSE 0]
    /\ UNCHANGED <<fcfg, fs, old, origin>>
    /\ UNCHANGED nonFileVars

RECURSIVE processAll(_, _, _, _, _)
\* The files ProcessFiles leaves: the files of oks are processed, their
\* output renamed into place with the source's time when timestamps are
\* preserved, and with --delete the sources of removes are removed.
processAll(cfg, files, oks, removes, f) ==
    IF files = <<>> THEN f
    ELSE IF Head(files) \notin oks \/ ~f[Head(files)].exists
    THEN processAll(cfg, Tail(files), oks, removes, f)
    ELSE processAll(
             cfg, Tail(files), oks, removes,
             [path \in DOMAIN f |->
                IF cfg.Delete /\ Head(files) \in removes /\ path = Head(files)
                THEN NoFile
                ELSE IF path = outputPath(cfg, Head(files))
                THEN NewFile(<<"output">>, ownerReadWrite,
                             IF cfg.PreserveTimestamps
                             THEN f[Head(files)].mtime ELSE 2)
                ELSE f[path]])

\* encryption.NewProcessor(cfg) and proc.ProcessFiles(), any file failing
\* or not, any removal failing or not.
RunProcessFiles ==
    /\ wk.pc = "resolved"
    /\ ~dryRequested(fcfg)
    /\ \E oks \in SUBSET Range(fcfg.Files), removes \in SUBSET Range(fcfg.Files) :
         /\ removes \subseteq oks
         /\ fcfg.Delete \/ removes = {}
         /\ fs' = processAll(fcfg, fcfg.Files, oks, removes, fs)
         /\ wk' = [wk EXCEPT
                     !.pc = "returned",
                     !.err = IF oks = Range(fcfg.Files) THEN ""
                             ELSE "running logic",
                     !.ops = { [op |-> "rename", path |-> outputPath(fcfg, file)] :
                               file \in oks }
                             \cup { [op |-> "remove", path |-> file] :
                                    file \in removes }]
    /\ UNCHANGED <<fcfg, old, origin>>
    /\ UNCHANGED nonFileVars

RunNext ==
    \/ RunResolveFiles
    \/ DryRun
    \/ RunProcessFiles

SpecRun == RunInit /\ [][RunNext]_vars

----------------------------------------------------------------------------
\* Properties of Run (SpecRun)

\* C23: in a dry run, whatever --delete, --preserve-timestamps and --stats
\* say, every file is at all times as it was before the run, and the only
\* calls made on the resolved files are os.Stat, made only with --stats.
C23_DryRunWritesNothing ==
    fcfg.Dry
        => /\ fs = old
           /\ \A o \in wk.ops :
                /\ o.op = "stat"
                /\ fcfg.Stats
                /\ o.path \in Range(fcfg.Files)

\* A dry run with --delete, --preserve-timestamps and --stats has returned:
\* it printed a line per resolved file and stat'ed each of them.
C23_Witness ==
    /\ fcfg.Dry /\ fcfg.Delete /\ fcfg.PreserveTimestamps /\ fcfg.Stats
    /\ wk.pc = "returned"
    /\ wk.err = ""
    /\ Len(wk.printed) = Len(TreeFiles)
    /\ Cardinality(wk.ops) = Len(TreeFiles)
    /\ wk.totalSize > 0
    /\ fs = old

\* The path is an argument of the run that names a file.
NamedExplicitly(path) ==
    \E k \in 1..Len(wk.args) : Clean(wk.args[k]) = path

\* C26: after resolveFiles of a decrypt run without --include and
\* --include-from, every selected file that is not itself an argument ends
\* with the encrypt suffix; with an include filter supplied the patterns
\* handed to Resolve are the supplied ones alone.
C26_DecryptWalkSelectsSuffixOnly ==
    (wk.pc # "resolve" /\ wk.rf.err = "")
        => /\ (fcfg.Decrypt /\ ~includeRequested(fcfg))
                => \A k \in 1..Len(wk.rf.Files) :
                     NamedExplicitly(wk.rf.Files[k])
                         \/ HasSuffix(wk.rf.Files[k], fcfg.Suffixes.Encrypt)
           /\ includeRequested(fcfg)
                => wk.rf.includes
                       = fcfg.Include \o loadIfNamed(fcfg.IncludeFrom).patterns

----------------------------------------------------------------------------
\* logic.RunCheck over the tree of SpecResolve (SpecCheck)

MaxChecked == 2

\* What loadPatterns returns.
loaded(err, includes, excludes) ==
    [err |-> err, includes |-> includes, excludes |-> excludes]

\* loadPatterns: the patterns of the command line, then those of the
\* patterns files, each with a leading "./" stripped.
loadPatterns(cfg) ==
    CHOOSE out \in
        { IF inc.err # "" THEN loaded("loading include patterns", <<>>, <<>>)
          ELSE IF exc.err # ""
          THEN loaded("loading exclude patterns", <<>>, <<>>)
          ELSE loaded("", normalizePatterns(cfg.Include \o inc.patterns),
                      normalizePatterns(cfg.Exclude \o exc.patterns)) :
          inc \in {loadIfNamed(cfg.IncludeFrom)},
          exc \in {loadIfNamed(cfg.ExcludeFrom)} } : TRUE

RECURSIVE collectFrom(_, _, _)
\* collectFiles from the k-th argument on.
collectFrom(args, k, paths) ==
    IF k > Len(args) THEN [err |-> "", paths |-> paths]
    ELSE IF Stat(Clean(args[k])).err # "" THEN [err |-> "stat", paths |-> <<>>]
    ELSE IF ~Stat(Clean(args[k])).IsDir
    THEN collectFrom(args, k + 1, AppendUnseen(paths, <<Clean(args[k])>>))
    ELSE collectFrom(args, k + 1,
                     AppendUnseen(paths, WalkFiles(Clean(args[k]))))

\* collectFiles
collectFiles(args) == collectFrom(args, 1, <<>>)

\* The number of candidates the matcher matches.
countMatches(matcher, candidates) ==
    Cardinality({ k \in 1..Len(candidates) : MatchAny(matcher, candidates[k]) })

\* The line checkPatterns prints for a pattern, or none.
checkLine(kind, pattern, verdict, count) ==
    << [kind |-> kind, pattern |-> pattern, verdict |-> verdict,
        count |-> count] >>

\* One iteration of checkPatterns that lets an invalid pattern pass.
checkPatternIgnoresInvalid(kind, pattern, candidates, quiet) ==
    CHOOSE out \in
        { IF matcher.err # "" THEN [failures |-> 0, lines |-> <<>>]
          ELSE IF countMatches(matcher, candidates) = 0
          THEN [failures |-> 1, lines |-> checkLine(kind, pattern, "none", 0)]
          ELSE [failures |-> 0,
                lines |-> IF quiet THEN <<>>
                          ELSE checkLine(kind, pattern, "files",
                                         countMatches(matcher, candidates))] :
          matcher \in {NewMatcher(<<pattern>>)} } : TRUE

\* One iteration of the loop of checkPatterns.
checkPattern(kind, pattern, candidates, quiet) ==
    CHOOSE out \in
        { IF matcher.err # ""
          THEN [failures |-> 1, lines |-> checkLine(kind, pattern, "invalid", 0)]
          ELSE IF countMatches(matcher, candidates) = 0
          THEN [failures |-> 1, lines |-> checkLine(kind, pattern, "none", 0)]
          ELSE [failures |-> 0,
                lines |-> IF quiet THEN <<>>
                          ELSE checkLine(kind, pattern, "files",
                                         countMatches(matcher, candidates))] :
          matcher \in {NewMatcher(<<pattern>>)} } : TRUE

RECURSIVE checkPatterns(_, _, _, _)
\* checkPatterns
checkPatterns(kind, patterns, candidates, quiet) ==
    IF patterns = <<>> THEN [failures |-> 0, lines |-> <<>>]
    ELSE CHOOSE out \in
             { [failures |-> first.failures + rest.failures,
                lines |-> first.lines \o rest.lines] :
               first \in {checkPattern(kind, Head(patterns), candidates, quiet)},
               rest \in {checkPatterns(kind, Tail(patterns), candidates,
                                       quiet)} } : TRUE

\* What RunCheck returns and has printed.
checked(err, failures, lines) ==
    [err |-> err, failures |-> failures, lines |-> lines]

\* RunCheck
RunCheck(cfg) ==
    CHOOSE out \in
        { IF pats.err # "" THEN checked(pats.err, 0, <<>>)
          ELSE IF Len(pats.includes) = 0 /\ Len(pats.excludes) = 0
          THEN checked("no include or exclude patterns to check", 0, <<>>)
          ELSE IF collectFiles(cfg.Files).err # ""
          THEN checked(collectFiles(cfg.Files).err, 0, <<>>)
          ELSE CHOOSE res \in
                 { checked(IF inc.failures + exc.failures > 0
                           THEN "pattern(s) matched no files" ELSE "",
                           inc.failures + exc.failures,
                           inc.lines \o exc.lines) :
                   inc \in {checkPatterns("include", pats.includes,
                                          collectFiles(cfg.Files).paths,
                                          cfg.Quiet)},
                   exc \in {checkPatterns("exclude", pats.excludes,
                                          collectFiles(cfg.Files).paths,
                                          cfg.Quiet)} } : TRUE :
          pats \in {loadPatterns(cfg)} } : TRUE

\* A pattern that matches, one written with ./, a malformed one and one that
\* matches no file of the tree.
CheckPatterns ==
    { <<"*", "a">>, <<".", "/", "d", "/", "*">>, <<"[">>, <<"e">> }

CheckArgs ==
    { << <<".">> >>, << <<"d">> >>, << <<".", "/", "d", "/", "a">> >>,
      << <<"d">>, <<"a">> >>, << <<"d">>, <<"x">> >>, << <<"a">> >> }

CheckCfgs ==
    [Include : UNION { [1..n -> CheckPatterns] : n \in 0..MaxChecked },
     Exclude : { <<>>, << <<"e">> >>, << <<"*", "a">> >> },
     IncludeFrom : { <<>>, <<"p">>, <<"n">>, <<"x">> },
     ExcludeFrom : { <<>>, <<"p">> },
     Files : CheckArgs,
     Quiet : BOOLEAN]

CheckInit ==
    /\ call \in [fn : {"RunCheck"}, cfg : CheckCfgs]
    /\ ret = <<>>
    /\ CodecIdle
    /\ FileIdle
    /\ SchedIdle

\* gonc check
CallRunCheck ==
    /\ call.fn = "RunCheck"
    /\ ret = <<>>
    /\ ret' = RunCheck(call.cfg)
    /\ UNCHANGED call
    /\ UNCHANGED nonFnVars

CheckNext == CallRunCheck

SpecCheck == CheckInit /\ [][CheckNext]_vars

----------------------------------------------------------------------------
\* C27: the verdict of gonc check

\* Every pattern of the command line and of the readable patterns files,
\* includes first.
GivenPatterns(cfg) ==
    normalizePatterns(cfg.Include \o loadIfNamed(cfg.IncludeFrom).patterns
                      \o cfg.Exclude \o loadIfNamed(cfg.ExcludeFrom).patterns)

\* The files under the given paths.
FilesUnder(args) ==
    UNION { IF Stat(Clean(args[k])).err # "" THEN {}
            ELSE IF Stat(Clean(args[k])).IsDir
            THEN { WalkFiles(Clean(args[k]))[n] :
                     n \in 1..Len(WalkFiles(Clean(args[k]))) }
            ELSE {Clean(args[k])} : k \in 1..Len(args) }

\* The pattern, on its own, is invalid or matches none of the files.
Useless(pattern, files) ==
    \/ NewMatcher(<<pattern>>).err # ""
    \/ \A f \in files : ~MatchAny(NewMatcher(<<pattern>>), f)

\* The positions of the useless patterns of a check.
UselessOf(cfg) ==
    { k \in 1..Len(GivenPatterns(cfg)) :
        Useless(GivenPatterns(cfg)[k], FilesUnder(cfg.Files)) }

RECURSIVE AtPositions(_, _, _)
\* The elements of seq at the positions of keep, from position k on.
AtPositions(seq, k, keep) ==
    IF k > Len(seq) THEN <<>>
    ELSE (IF k \in keep THEN <<seq[k]>> ELSE <<>>)
         \o AtPositions(seq, k + 1, keep)

CheckDone == call.fn = "RunCheck" /\ ret # <<>>

\* A patterns file that cannot be read, or an argument that does not exist.
CheckCannotStart(cfg) ==
    \/ loadIfNamed(cfg.IncludeFrom).err # ""
    \/ loadIfNamed(cfg.ExcludeFrom).err # ""
    \/ /\ GivenPatterns(cfg) # <<>>
       /\ \E k \in 1..Len(cfg.Files) : Stat(Clean(cfg.Files[k])).err # ""

----------------------------------------------------------------------------
\* Errors reported after the rename (SpecFile)

\* C31: a job that reports an error has not renamed its temporary file onto
\* the output path; no step that can fail comes after the rename.
C31_ErrorMeansNotRenamed ==
    \A i \in FileIds :
        (wk[i].pc \in {"cleanup", "returned"} /\ wk[i].err # "")
            => ~wk[i].renamed

----------------------------------------------------------------------------
\* Termination of ProcessFiles (SpecSchedFair)

\* C33: for every worker limit the configuration accepts, every goroutine
\* is eventually started and finishes, and ProcessFiles returns.
C33_ProcessFilesTerminates ==
    <>(/\ sched.pc = "returned"
       /\ \A i \in DOMAIN gor : gor[i].pc = "done")

----------------------------------------------------------------------------
\* The protocol of the result channel (SpecSched)

\* C35: the result channel is closed only after every goroutine has posted
\* its result and returned; a goroutine about to send finds the channel open
\* and with room; ProcessFiles returns only after the printer has consumed
\* every posted result, with the printer's final counters.
C35_ChannelClosedAfterPosts ==
    /\ results.closed => \A i \in DOMAIN gor : gor[i].pc = "done"
    /\ \A i \in DOMAIN gor :
          gor[i].pc = "post"
              => ~results.closed /\ Len(results.queue) < sched.cfg.Files
    /\ sched.pc = "returned"
          => /\ printer.pc = "done"
             /\ results.queue = <<>>
             /\ Len(printer.log) = sched.cfg.Files
             /\ sched.ret.processed = printer.processed
             /\ sched.ret.errored = printer.errored
             /\ sched.ret.totalSize = printer.totalSize

\* The channel is closed while every result is still in it: no goroutine
\* waited for the printer.
C35_Witness ==
    /\ results.closed
    /\ Len(results.queue) = MaxFiles
    /\ printer.log = <<>>
    /\ \A i \in DOMAIN gor : gor[i].pc = "done"

----------------------------------------------------------------------------
\* The output paths of one run (SpecDelete)

\* C36: two different input files of one run have different output paths:
\* no two goroutines that processed their files without error have put
\* their output at the same path.
C36_OutputPathsDistinct ==
    \A i, j \in FileIds :
        (/\ wk[i].file # wk[j].file
         /\ wk[i].pc # "run" /\ wk[i].err = ""
         /\ wk[j].pc # "run" /\ wk[j].err = "")
            => wk[i].outPath # wk[j].outPath

----------------------------------------------------------------------------
\* config.Config.Validate (SpecValidate)

Repeat(ch, n) == [k \in 1..n |-> ch]

HexDigits ==
    {"0", "1", "2", "3", "4", "5", "6", "7", "8", "9", "a", "b", "c", "d",
     "e", "f", "A", "B", "C", "D", "E", "F"}

\* The validator's hexadecimal tag.
IsHexadecimal(s) == s # <<>> /\ \A k \in 1..Len(s) : s[k] \in HexDigits

\* validateExclusive: false when both fields are non-empty.
validateExclusive(field, otherField) == ~(field # <<>> /\ otherField # <<>>)

\* The tags of Key.String: omitempty,hexadecimal,len=64|len=128,exclusive=File.
KeyStringValid(key) ==
    \/ key.String = <<>>
    \/ /\ IsHexadecimal(key.String)
       /\ Len(key.String) \in {64, 128}
       /\ validateExclusive(key.String, key.File)

\* The tag of Key.File: exclusive=String.
KeyFileValid(key) == validateExclusive(key.File, key.String)

\* The errors validator.Validate collects, one for each field that fails.
FieldErrors(c) ==
    (IF KeyStringValid(c.Key) THEN <<>> ELSE <<"--key">>)
        \o (IF KeyFileValid(c.Key) THEN <<>> ELSE <<"--key-file">>)

\* validator.Validate(config): the errors of the fields; without any, nil or
\* an empty list.
ValidatorResults(c) ==
    { [isNil |-> n, errs |-> FieldErrors(c)] :
        n \in IF FieldErrors(c) = <<>> THEN BOOLEAN ELSE {FALSE} }

\* Config.Validate, given what validator.Validate returned.
Validate(c, res) ==
    IF res.isNil THEN ""
    ELSE IF Len(res.errs) = 1 THEN "usage error"
    ELSE IF Len(res.errs) > 1 THEN "usage errors"
    ELSE IF c.Redact /\ (c.Key.String # <<>> \/ c.Key.File # <<>>)
    THEN "usage error: --key/--key-file cannot be used with redact"
    ELSE ""

\* No key, keys of 64 and 128 hexadecimal digits, one that is not
\* hexadecimal and one of a wrong length.
KeyStrings ==
    { <<>>, Repeat("a", 64), Repeat("0", 128), Repeat("g", 64),
      Repeat("a", 10) }

ValidateCfgs ==
    [Key : [String : KeyStrings, File : {<<>>, <<"k">>}],
     Redact : BOOLEAN, Decrypt : BOOLEAN, Deterministic : BOOLEAN,
     Delete : BOOLEAN]

ValidateInit ==
    /\ call \in [fn : {"Validate"}, cfg : ValidateCfgs]
    /\ ret = <<>>
    /\ CodecIdle
    /\ FileIdle
    /\ SchedIdle

\* cfg.Validate(cfg)
CallValidate ==
    /\ call.fn = "Validate"
    /\ ret = <<>>
    /\ \E res \in ValidatorResults(call.cfg) :
         ret' = [err |-> Validate(call.cfg, res), validated |-> res]
    /\ UNCHANGED call
    /\ UNCHANGED nonFnVars

ValidateNext == CallValidate

SpecValidate == ValidateInit /\ [][ValidateNext]_vars

\* C38: Validate returns a usage error for every configuration that sets
\* Redact together with a key or a key file, also when every field is valid.
C38_RedactWithKeyRefused ==
    (/\ call.fn = "Validate"
     /\ ret # <<>>
     /\ call.cfg.Redact
     /\ (call.cfg.Key.String # <<>> \/ call.cfg.Key.File # <<>>))
        => ret.err # ""

----------------------------------------------------------------------------
\* A signal during ProcessFiles (SpecSignal).  Neither Execute, Run nor
\* ProcessFiles takes a context or installs a handler: SIGINT and SIGTERM
\* end the process at once, and no deferred call of any goroutine runs.

SignalCfgs ==
    [Decrypt : {FALSE}, Deterministic : BOOLEAN, key : {Key32, Key64},
     PreserveTimestamps : {FALSE}, Suffixes : {DefaultSuffixes}]

SignalInit == FileInitIn(SignalCfgs)

\* The process receives the signal while ProcessFiles runs.
Signal ==
    /\ \A i \in FileIds : wk[i].pc \notin {"new", "refused", "killed"}
    /\ \E i \in FileIds : wk[i].pc # "returned"
    /\ wk' = [i \in FileIds |->
                IF wk[i].pc = "returned" THEN wk[i]
                ELSE [wk[i] EXCEPT !.pc = "killed"]]
    /\ UNCHANGED <<fcfg, fs, old, origin>>
    /\ UNCHANGED nonFileVars

SignalNext == FileNext \/ Signal

SpecSignal == SignalInit /\ [][SignalNext]_vars

\* C37: after a signal has ended the run, no temporary file is left behind
\* and every output path holds what it held before the run or a complete
\* output.
C37_SignalLeavesNoTemp ==
    (\E k \in FileIds : wk[k].pc = "killed")
        => \A i \in FileIds :
              /\ ~fs[TmpPath(i)].exists
              /\ \/ fs[OutPath(i)] = old[OutPath(i)]
                 \/ fs[OutPath(i)].content = ReferenceJob(i).w

----------------------------------------------------------------------------
\* The Processor the workers share (SpecShared): the goroutines of
\* ProcessFiles run encrypt or decrypt on the one *Processor, seen here by
\* their reads and writes of its fields.  fcfg is the Processor, old the
\* Processor as NewProcessor returned it.

\* The mode byte of a file's header, or 0 for a header that does not parse.
SharedModes == {modeDeterministic, modeRandomized, 0}

SharedCfgs ==
    { c \in [Decrypt : BOOLEAN, Deterministic : BOOLEAN, key : {Key32, Key64}] :
        NewProcessor(c).ok }

SharedInit ==
    /\ \E c \in SharedCfgs : fcfg = NewProcessor(c).p
    /\ old = fcfg
    /\ wk \in [FileIds -> [pc : {"start"}, mode : SharedModes, err : {""},
                           daead : {NoDaead}]]
    /\ fs = <<>>
    /\ origin = NoTamper
    /\ CodecIdle
    /\ SchedIdle
    /\ FnIdle

SharedStep(i, w) ==
    /\ wk' = [wk EXCEPT ![i] = w]
    /\ UNCHANGED <<fcfg, fs, old, origin>>
    /\ UNCHANGED nonFileVars

\* Processor.encrypt: the codec of p.cfg.Deterministic, with p.daead as
\* NewProcessor made it.
SharedEncrypt(i) ==
    /\ ~fcfg.cfg.Decrypt
    /\ wk[i].pc = "start"
    /\ SharedStep(i, [wk[i] EXCEPT !.pc = "done", !.daead = fcfg.daead])

\* Processor.decrypt up to the switch on the header's mode and the check of
\* the key's length.
SharedDecryptHeader(i) ==
    /\ fcfg.cfg.Decrypt
    /\ wk[i].pc = "start"
    /\ SharedStep(i,
         IF wk[i].mode = 0
         THEN [wk[i] EXCEPT !.pc = "done", !.err = "invalid header"]
         ELSE IF wk[i].mode = modeDeterministic
         THEN IF fcfg.key.len # AesSivKeySize
              THEN [wk[i] EXCEPT !.pc = "done", !.err = "wrong key length"]
              ELSE [wk[i] EXCEPT !.pc = "check"]
         ELSE IF fcfg.key.len # AesKeySize
         THEN [wk[i] EXCEPT !.pc = "done", !.err = "wrong key length"]
         ELSE [wk[i] EXCEPT !.pc = "done"])

\* if p.daead == nil
SharedCheckDaead(i) ==
    /\ wk[i].pc = "check"
    /\ SharedStep(i, [wk[i] EXCEPT !.pc = IF fcfg.daead = NoDaead
                                          THEN "assign" ELSE "codec"])

\* kh, err := newDeterministicAEADKeyHandle(p.key); daeadPrimitive, err :=
\* daead.New(kh); p.daead = daeadPrimitive
SharedAssignDaead(i) ==
    /\ wk[i].pc = "assign"
    /\ fcfg' = [fcfg EXCEPT !.daead = newDeterministicAEAD(fcfg.key)]
    /\ wk' = [wk EXCEPT ![i].pc = "codec"]
    /\ UNCHANGED <<fs, old, origin>>
    /\ UNCHANGED nonFileVars

\* p.decryptDeterministic reads p.daead.
SharedDecryptDeterministic(i) ==
    /\ wk[i].pc = "codec"
    /\ SharedStep(i, [wk[i] EXCEPT !.pc = "done", !.daead = fcfg.daead])

SharedNext ==
    \E i \in FileIds :
        \/ SharedEncrypt(i)
        \/ SharedDecryptHeader(i)
        \/ SharedCheckDaead(i)
        \/ SharedAssignDaead(i)
        \/ SharedDecryptDeterministic(i)

SpecShared == SharedInit /\ [][SharedNext]_vars

\* C32: while workers run, the shared Processor is as NewProcessor returned
\* it, and no two workers are about to assign its AEAD primitive.
C32_ProcessorNotWrittenByWorkers ==
    /\ fcfg = old
    /\ \A i, j \in FileIds :
          (wk[i].pc = "assign" /\ wk[j].pc = "assign") => i = j

----------------------------------------------------------------------------
\* The held-back tag candidate of randomized decrypt (Spec)

\* The bytes decryptRandomized has read after the IV.
BodyRead(j) == SubSeq(j.r, envelopeHeaderSize + IVSize + 1, j.rpos)

\* decryptRandomized is in or past its read loop.
InRandomizedLoop ==
    /\ pc \in {"decrypting", "done"}
    /\ job.op = "decRand"
    /\ Len(job.iv) = IVSize

\* The number of bytes held back after the reads so far.
HeldBack(j) == IF Len(BodyRead(j)) < TagSize THEN Len(BodyRead(j)) ELSE TagSize

\* C34: after every read the held-back buffer holds the last min(tag size,
\* bytes read after the IV) bytes read, and the bytes absorbed into the HMAC,
\* decrypted and written are all earlier bytes, in order and once each; at
\* EOF the held-back bytes are compared as the tag, and a body shorter than
\* a tag fails.
C34_TagCandidateHeldBack ==
    InRandomizedLoop =>
        /\ job.tagBuffer
             = Drop(BodyRead(job), Len(BodyRead(job)) - HeldBack(job))
        /\ job.mac
             = job.header \o job.iv
                 \o Take(BodyRead(job), Len(BodyRead(job)) - HeldBack(job))
        /\ job.w
             = XORKeyStream(deriveRandomizedKeys(job.key).enc, job.iv, 0,
                   Take(BodyRead(job), Len(BodyRead(job)) - HeldBack(job)))
        /\ job.done =>
              /\ job.rpos = Len(job.r)
              /\ Len(BodyRead(job)) < TagSize
                    <=> job.err = "authentication tag missing"
              /\ job.err = ""
                    <=> /\ Len(BodyRead(job)) >= TagSize
                        /\ job.tagBuffer
                             = hmacSum(deriveRandomizedKeys(job.key).mac,
                                       job.mac)

\* In the middle of the stream, after a read shorter than a tag: the bytes
\* held back are ciphertext and part of what was held before was released.
C34_Witness ==
    /\ InRandomizedLoop
    /\ pc = "decrypting"
    /\ Len(job.w) = 1
    /\ Len(job.tagBuffer) = TagSize
    /\ Remaining(job) >= TagSize

====
